---- MODULE Spec2Model ----
(***************************************************************************)
(* Model of the repeat-discovery pipeline of ins: the binary key codec and *)
(* the two comparators of internal/store, the region merger and the        *)
(* fragmenter of cmd/ins/fragment.go, and the containment culler of        *)
(* cmd/ins.                                                                *)
(*                                                                         *)
(* Strings and keys are sequences of bytes (0..255).  A 64 bit integer is  *)
(* written as its eight big-endian two's complement bytes; the model keeps *)
(* every integer within 32 bits so that the upper four bytes are the sign  *)
(* extension.  Bit scores are finite non-negative floats with an integral  *)
(* value below 4096, written as their IEEE-754 binary64 bits.              *)
(***************************************************************************)
EXTENDS Integers, Sequences, FiniteSets, TLC

Nil == <<>>

(***************************************************************************)
(* Bounds of the model.                                                    *)
(***************************************************************************)
\* Largest number of records put in the forward store.
MaxHits == 3
\* Largest number of records put in the reverse store.
MaxRev == 3
\* Largest length of an input sequence given to split.
MaxSeqLen == 6
\* Largest number of input sequences given to split.
MaxSeqs == 2
\* Largest fragment length asked of split.
MaxGoal == 3
\* The iterations of the forward search of one library.
MaxIters == 2
\* The lines of one BLAST tabular report.
MaxLines == 2
\* The cores of the machine.
MaxCPU == 3
\* The regions store of the reciprocal pass has at most MaxRegions regions.
MaxRegions == 3
\* BLAST reports at most MaxXMLHits hits over a reciprocal pass, and at most
\* MaxXMLHits iterations, each of one hit of at most MaxXMLHits HSPs, in
\* the reports of one flush.
MaxXMLHits == 2

(***************************************************************************)
(* Go values.                                                              *)
(***************************************************************************)
RECURSIVE Pow(_, _)
Pow(b, e) == IF e = 0 THEN 1 ELSE b * Pow(b, e - 1)

RECURSIVE Log2(_)
Log2(x) == IF x <= 1 THEN 0 ELSE 1 + Log2(x \div 2)

\* Go's ordering of strings: bytewise lexicographic.
RECURSIVE StrLess(_, _)
StrLess(s, t) ==
    IF t = <<>> THEN FALSE
    ELSE IF s = <<>> THEN TRUE
    ELSE IF Head(s) # Head(t) THEN Head(s) < Head(t)
    ELSE StrLess(Tail(s), Tail(t))

\* binary.BigEndian.PutUint64(b, uint64(x)) for an integer x.
PutUint64(x) ==
    [i \in 1..8 |->
        IF i <= 4 THEN (IF x < 0 THEN 255 ELSE 0)
        ELSE (x \div Pow(256, 8 - i)) % 256]

\* int64(binary.BigEndian.Uint64(b)).
Uint64(b) ==
    IF b[1] >= 128
    THEN -1 - ((255 - b[5]) * 16777216 + (255 - b[6]) * 65536
               + (255 - b[7]) * 256 + (255 - b[8]))
    ELSE b[5] * 16777216 + b[6] * 65536 + b[7] * 256 + b[8]

\* math.Float64bits(f), big-endian, for a float f = 0, 1, 2, ...
Float64bits(f) ==
    IF f = 0 THEN [i \in 1..8 |-> 0]
    ELSE LET e    == Log2(f)
             expf == 1023 + e
             m12  == (f - Pow(2, e)) * Pow(2, 12 - e)
         IN  << expf \div 16, (expf % 16) * 16 + (m12 \div 256), m12 % 256,
                0, 0, 0, 0, 0 >>

\* math.Float64frombits of eight big-endian bytes.
Float64frombits(b) ==
    IF b = [i \in 1..8 |-> 0] THEN 0
    ELSE LET expf == (b[1] % 128) * 16 + (b[2] \div 16)
             e    == expf - 1023
             m12  == (b[2] % 16) * 256 + b[3]
         IN  Pow(2, e) + (m12 * Pow(2, e)) \div 4096

\* byte(int8) and int8(byte).
ByteOfInt8(s) == s % 256
Int8OfByte(b) == IF b >= 128 THEN b - 256 ELSE b

(***************************************************************************)
(* internal/store: the key codec.                                          *)
(***************************************************************************)
\* blast.Record, the fields the pipeline keys on; SumScore and UID are the
\* auxiliary fields carried in the value.
Record(q, s, qs, qe, ss, se, bits, strand, sum) ==
    [QueryAccVer |-> q, SubjectAccVer |-> s, QueryStart |-> qs, QueryEnd |-> qe,
     SubjectStart |-> ss, SubjectEnd |-> se, BitScore |-> bits,
     Strand |-> strand, SumScore |-> sum]

BlastRecordKey(s, l, r, q, qs, qe, bits, strand) ==
    [SubjectAccVer |-> s, SubjectLeft |-> l, SubjectRight |-> r,
     QueryAccVer |-> q, QueryStart |-> qs, QueryEnd |-> qe,
     BitScore |-> bits, Strand |-> strand]

\* Mutant: the subject coordinates are put in order without exchanging the
\* query coordinates.
MarshalNoQuerySwap(r) ==
    LET swap  == r.SubjectEnd < r.SubjectStart
        left  == IF swap THEN r.SubjectEnd ELSE r.SubjectStart
        right == IF swap THEN r.SubjectStart ELSE r.SubjectEnd
    IN  PutUint64(Len(r.SubjectAccVer)) \o r.SubjectAccVer
        \o PutUint64(left) \o PutUint64(right)
        \o PutUint64(Len(r.QueryAccVer)) \o r.QueryAccVer
        \o PutUint64(r.QueryStart) \o PutUint64(r.QueryEnd)
        \o Float64bits(r.BitScore)
        \o << ByteOfInt8(r.Strand) >>

\* Mutant: the query end is written before the query start.
MarshalQueryEndFirst(r) ==
    LET swap  == r.SubjectEnd < r.SubjectStart
        left  == IF swap THEN r.SubjectEnd ELSE r.SubjectStart
        right == IF swap THEN r.SubjectStart ELSE r.SubjectEnd
        qs    == IF swap THEN r.QueryEnd ELSE r.QueryStart
        qe    == IF swap THEN r.QueryStart ELSE r.QueryEnd
    IN  PutUint64(Len(r.SubjectAccVer)) \o r.SubjectAccVer
        \o PutUint64(left) \o PutUint64(right)
        \o PutUint64(Len(r.QueryAccVer)) \o r.QueryAccVer
        \o PutUint64(qe) \o PutUint64(qs)
        \o Float64bits(r.BitScore)
        \o << ByteOfInt8(r.Strand) >>

MarshalBlastRecordKey(r) ==
    LET swap  == r.SubjectEnd < r.SubjectStart
        left  == IF swap THEN r.SubjectEnd ELSE r.SubjectStart
        right == IF swap THEN r.SubjectStart ELSE r.SubjectEnd
        qs    == IF swap THEN r.QueryEnd ELSE r.QueryStart
        qe    == IF swap THEN r.QueryStart ELSE r.QueryEnd
    IN  PutUint64(Len(r.SubjectAccVer)) \o r.SubjectAccVer
        \o PutUint64(left) \o PutUint64(right)
        \o PutUint64(Len(r.QueryAccVer)) \o r.QueryAccVer
        \o PutUint64(qs) \o PutUint64(qe)
        \o Float64bits(r.BitScore)
        \o << ByteOfInt8(r.Strand) >>

UnmarshalBlastRecordKey(data) ==
    LET n1 == Uint64(SubSeq(data, 1, 8))
        d1 == SubSeq(data, 9, Len(data))
        s  == SubSeq(d1, 1, n1)
        d2 == SubSeq(d1, n1 + 1, Len(d1))
        l  == Uint64(SubSeq(d2, 1, 8))
        r  == Uint64(SubSeq(d2, 9, 16))
        n2 == Uint64(SubSeq(d2, 17, 24))
        d3 == SubSeq(d2, 25, Len(d2))
        q  == SubSeq(d3, 1, n2)
        d4 == SubSeq(d3, n2 + 1, Len(d3))
        qs == Uint64(SubSeq(d4, 1, 8))
        qe == Uint64(SubSeq(d4, 9, 16))
        bs == Float64frombits(SubSeq(d4, 17, 24))
    IN  BlastRecordKey(s, l, r, q, qs, qe, bs, Int8OfByte(d4[25]))

\* MarshalInt(n): n as eight big-endian bytes.
MarshalInt(n) == PutUint64(n)

(***************************************************************************)
(* internal/store: the comparators.                                        *)
(***************************************************************************)
\* The value standing for panic("unreachable").
Unreachable == 2

\* Mutant: higher bit scores are ordered last.
GroupByBitScoreAscending(a, b) ==
    IF a.Strand > b.Strand THEN -1
    ELSE IF a.Strand < b.Strand THEN 1
    ELSE IF StrLess(a.QueryAccVer, b.QueryAccVer) THEN -1
    ELSE IF StrLess(b.QueryAccVer, a.QueryAccVer) THEN 1
    ELSE IF StrLess(a.SubjectAccVer, b.SubjectAccVer) THEN -1
    ELSE IF StrLess(b.SubjectAccVer, a.SubjectAccVer) THEN 1
    ELSE IF a.SubjectLeft < b.SubjectLeft THEN -1
    ELSE IF a.SubjectLeft > b.SubjectLeft THEN 1
    ELSE IF a.SubjectRight < b.SubjectRight THEN -1
    ELSE IF a.SubjectRight > b.SubjectRight THEN 1
    ELSE IF a.BitScore < b.BitScore THEN -1
    ELSE IF a.BitScore > b.BitScore THEN 1
    ELSE IF a.QueryStart < b.QueryStart THEN -1
    ELSE IF a.QueryStart > b.QueryStart THEN 1
    ELSE IF a.QueryEnd < b.QueryEnd THEN -1
    ELSE IF a.QueryEnd > b.QueryEnd THEN 1
    ELSE Unreachable

\* Mutant: the query coordinates are not used to tell keys apart.
GroupByNoQueryCoords(a, b) ==
    IF a.Strand > b.Strand THEN -1
    ELSE IF a.Strand < b.Strand THEN 1
    ELSE IF StrLess(a.QueryAccVer, b.QueryAccVer) THEN -1
    ELSE IF StrLess(b.QueryAccVer, a.QueryAccVer) THEN 1
    ELSE IF StrLess(a.SubjectAccVer, b.SubjectAccVer) THEN -1
    ELSE IF StrLess(b.SubjectAccVer, a.SubjectAccVer) THEN 1
    ELSE IF a.SubjectLeft < b.SubjectLeft THEN -1
    ELSE IF a.SubjectLeft > b.SubjectLeft THEN 1
    ELSE IF a.SubjectRight < b.SubjectRight THEN -1
    ELSE IF a.SubjectRight > b.SubjectRight THEN 1
    ELSE IF a.BitScore > b.BitScore THEN -1
    ELSE IF a.BitScore < b.BitScore THEN 1
    ELSE Unreachable

\* The cascade of GroupByQueryOrderSubjectLeft on the decoded keys a and b.
GroupByQueryOrderSubjectLeftDecoded(a, b) ==
    IF a.Strand > b.Strand THEN -1
    ELSE IF a.Strand < b.Strand THEN 1
    ELSE IF StrLess(a.QueryAccVer, b.QueryAccVer) THEN -1
    ELSE IF StrLess(b.QueryAccVer, a.QueryAccVer) THEN 1
    ELSE IF StrLess(a.SubjectAccVer, b.SubjectAccVer) THEN -1
    ELSE IF StrLess(b.SubjectAccVer, a.SubjectAccVer) THEN 1
    ELSE IF a.SubjectLeft < b.SubjectLeft THEN -1
    ELSE IF a.SubjectLeft > b.SubjectLeft THEN 1
    ELSE IF a.SubjectRight < b.SubjectRight THEN -1
    ELSE IF a.SubjectRight > b.SubjectRight THEN 1
    ELSE IF a.BitScore > b.BitScore THEN -1
    ELSE IF a.BitScore < b.BitScore THEN 1
    ELSE IF a.QueryStart < b.QueryStart THEN -1
    ELSE IF a.QueryStart > b.QueryStart THEN 1
    ELSE IF a.QueryEnd < b.QueryEnd THEN -1
    ELSE IF a.QueryEnd > b.QueryEnd THEN 1
    ELSE Unreachable

GroupByQueryOrderSubjectLeft(x, y) ==
    IF x = y THEN 0
    ELSE GroupByQueryOrderSubjectLeftDecoded(UnmarshalBlastRecordKey(x),
                                             UnmarshalBlastRecordKey(y))

\* Mutant: shorter records are ordered first.
BySubjectRightAscending(a, b) ==
    IF a.Strand > b.Strand THEN -1
    ELSE IF a.Strand < b.Strand THEN 1
    ELSE IF StrLess(a.SubjectAccVer, b.SubjectAccVer) THEN -1
    ELSE IF StrLess(b.SubjectAccVer, a.SubjectAccVer) THEN 1
    ELSE IF a.SubjectLeft < b.SubjectLeft THEN -1
    ELSE IF a.SubjectLeft > b.SubjectLeft THEN 1
    ELSE IF a.SubjectRight < b.SubjectRight THEN -1
    ELSE IF a.SubjectRight > b.SubjectRight THEN 1
    ELSE IF a.BitScore > b.BitScore THEN -1
    ELSE IF a.BitScore < b.BitScore THEN 1
    ELSE IF StrLess(a.QueryAccVer, b.QueryAccVer) THEN -1
    ELSE IF StrLess(b.QueryAccVer, a.QueryAccVer) THEN 1
    ELSE IF a.QueryStart < b.QueryStart THEN -1
    ELSE IF a.QueryStart > b.QueryStart THEN 1
    ELSE IF a.QueryEnd < b.QueryEnd THEN -1
    ELSE IF a.QueryEnd > b.QueryEnd THEN 1
    ELSE Unreachable

\* The cascade of BySubjectPosition on the decoded keys a and b.
BySubjectPositionDecoded(a, b) ==
    IF a.Strand > b.Strand THEN -1
    ELSE IF a.Strand < b.Strand THEN 1
    ELSE IF StrLess(a.SubjectAccVer, b.SubjectAccVer) THEN -1
    ELSE IF StrLess(b.SubjectAccVer, a.SubjectAccVer) THEN 1
    ELSE IF a.SubjectLeft < b.SubjectLeft THEN -1
    ELSE IF a.SubjectLeft > b.SubjectLeft THEN 1
    ELSE IF a.SubjectRight > b.SubjectRight THEN -1
    ELSE IF a.SubjectRight < b.SubjectRight THEN 1
    ELSE IF a.BitScore > b.BitScore THEN -1
    ELSE IF a.BitScore < b.BitScore THEN 1
    ELSE IF StrLess(a.QueryAccVer, b.QueryAccVer) THEN -1
    ELSE IF StrLess(b.QueryAccVer, a.QueryAccVer) THEN 1
    ELSE IF a.QueryStart < b.QueryStart THEN -1
    ELSE IF a.QueryStart > b.QueryStart THEN 1
    ELSE IF a.QueryEnd < b.QueryEnd THEN -1
    ELSE IF a.QueryEnd > b.QueryEnd THEN 1
    ELSE Unreachable

BySubjectPosition(x, y) ==
    IF x = y THEN 0
    ELSE BySubjectPositionDecoded(UnmarshalBlastRecordKey(x),
                                  UnmarshalBlastRecordKey(y))

(***************************************************************************)
(* The state.                                                              *)
(***************************************************************************)
VARIABLES
    \* codec and comparators applied to two records
    cpc, rx, ry, kx, ky, kxs, ux, uy, cg, cgr, cs, csr,
    \* forward store and merge
    hits, mpc, it, last, n, i, inTx, txDepth, regions, mret,
    \* reverse store and cullContained
    rev, rev0, kpc, outerIt, candIt, outer, deleted,
    \* split
    spc, src, goal, max, si, seqID, seqRest, pos, fi, frags, dst, dstSrc,
    \* the forward pass: iteration, BLAST lines, parsed hits, masked positions
    \* of the working file
    fpc, fn, lines, lastHits, working,
    \* main: flags, position, store handles, files and output
    pc, err, recover, cull, work, hitsDB, regionsDB, remappedHits, files, ran, masked,
    \* the thread count of the BLAST searches
    tpc, mode, threads, numCPU, search, blastns,
    \* the reciprocal pass: position, enumerator of the regions, current and
    \* next region, accumulator, BLAST results, hit id counter, the records
    \* of the last flush; the regions read and appended, the transactions
    \* and the flushes so far
    rpc, rit, rg, rnext, rfinal, buf, xml, hitID, reported,
    nread, appended, rtx, rlog

codecVars == << cpc, rx, ry, kx, ky, kxs, ux, uy, cg, cgr, cs, csr >>
mergeVars == << hits, mpc, it, last, n, i, inTx, txDepth, regions, mret >>
cullVars  == << rev, rev0, kpc, outerIt, candIt, outer, deleted >>
splitVars == << spc, src, goal, max, si, seqID, seqRest, pos, fi, frags, dst, dstSrc >>
forwardVars == << fpc, fn, lines, lastHits, working >>
mainVars  == << pc, err, recover, cull, work, hitsDB, regionsDB, remappedHits, files, ran,
                masked >>
threadVars == << tpc, mode, threads, numCPU, search, blastns >>
recipVars == << rpc, rit, rg, rnext, rfinal, buf, xml, hitID, reported,
                nread, appended, rtx, rlog >>
vars      == << codecVars, mergeVars, cullVars, splitVars, forwardVars, mainVars,
                threadVars, recipVars >>

CodecIdle ==
    /\ cpc = "idle" /\ rx = Nil /\ ry = Nil /\ kx = Nil /\ ky = Nil /\ kxs = Nil
    /\ ux = Nil /\ uy = Nil
    /\ cg = 0 /\ cgr = 0 /\ cs = 0 /\ csr = 0

MergeIdle ==
    /\ hits = <<>> /\ mpc = "idle" /\ it = 0 /\ last = Nil /\ n = 0 /\ i = 0
    /\ inTx = FALSE /\ txDepth = 0 /\ regions = <<>> /\ mret = Nil

CullIdle ==
    /\ rev = <<>> /\ rev0 = <<>> /\ kpc = "idle" /\ outerIt = Nil /\ candIt = Nil
    /\ outer = Nil /\ deleted = {}

SplitIdle ==
    /\ spc = "idle" /\ src = <<>> /\ goal = 0 /\ max = 0 /\ si = 0 /\ seqID = Nil
    /\ seqRest = <<>> /\ pos = 0 /\ fi = 0 /\ frags = <<>> /\ dst = <<>>
    /\ dstSrc = <<>>

ForwardIdle ==
    fpc = "idle" /\ fn = 0 /\ lines = <<>> /\ lastHits = <<>> /\ working = {}

ThreadIdle ==
    /\ tpc = "idle" /\ mode = "" /\ threads = 0 /\ numCPU = 0 /\ search = 0
    /\ blastns = {}

RecipIdle ==
    /\ rpc = "idle" /\ rit = Nil /\ rg = Nil /\ rnext = Nil /\ rfinal = FALSE
    /\ buf = <<>> /\ xml = <<>> /\ hitID = 0 /\ reported = <<>>
    /\ nread = 0 /\ appended = <<>> /\ rtx = 0 /\ rlog = <<>>

\* A nil *kv.DB.
NilDB == [path |-> <<>>, opts |-> "", how |-> "nil", open |-> FALSE]

\* No masked copy of the query has been written.
NotMasked == [written |-> FALSE, positions |-> {}]

MainIdle ==
    /\ pc = "idle" /\ err = "" /\ recover = Nil /\ cull = FALSE /\ work = FALSE
    /\ hitsDB = NilDB /\ regionsDB = NilDB /\ remappedHits = NilDB
    /\ files = <<>> /\ ran = {} /\ masked = NotMasked

(***************************************************************************)
(* The codec and the comparators on pairs of records.                      *)
(***************************************************************************)
\* "a", "b1"
SubjectAccs == { <<97>>, <<98, 49>> }
\* "q", "q2"
QueryAccs == { <<113>>, <<113, 50>> }
SubjectCoords == {7, 300}
QueryCoords == {0, 2}
BitScores == {1, 3}
Strands == {1, -1}

CodecRecords ==
    { Record(q, s, qs, qe, ss, se, b, st, 0) :
        q \in QueryAccs, s \in SubjectAccs, qs \in QueryCoords, qe \in QueryCoords,
        ss \in SubjectCoords, se \in SubjectCoords, b \in BitScores, st \in Strands }

\* r with the subject coordinates exchanged and the query coordinates exchanged.
Swapped(r) ==
    [r EXCEPT !.SubjectStart = r.SubjectEnd, !.SubjectEnd = r.SubjectStart,
              !.QueryStart = r.QueryEnd, !.QueryEnd = r.QueryStart]

CodecInit ==
    /\ cpc = "records" /\ rx \in CodecRecords /\ ry \in CodecRecords
    /\ kx = Nil /\ ky = Nil /\ kxs = Nil /\ ux = Nil /\ uy = Nil
    /\ cg = 0 /\ cgr = 0 /\ cs = 0 /\ csr = 0
    /\ MergeIdle /\ CullIdle /\ SplitIdle /\ ForwardIdle /\ MainIdle /\ ThreadIdle
    /\ RecipIdle

Marshal ==
    /\ cpc = "records"
    /\ kx' = MarshalBlastRecordKey(rx)
    /\ ky' = MarshalBlastRecordKey(ry)
    /\ kxs' = MarshalBlastRecordKey(Swapped(rx))
    /\ cpc' = "marshalled"
    /\ UNCHANGED << rx, ry, ux, uy, cg, cgr, cs, csr, mergeVars, cullVars, splitVars,
                    forwardVars, mainVars, threadVars, recipVars >>

Unmarshal ==
    /\ cpc = "marshalled"
    /\ ux' = UnmarshalBlastRecordKey(kx)
    /\ uy' = UnmarshalBlastRecordKey(ky)
    /\ cpc' = "unmarshalled"
    /\ UNCHANGED << rx, ry, kx, ky, kxs, cg, cgr, cs, csr, mergeVars, cullVars, splitVars,
                    forwardVars, mainVars, threadVars, recipVars >>

Compare ==
    /\ cpc = "unmarshalled"
    /\ cg' = GroupByQueryOrderSubjectLeft(kx, ky)
    /\ cgr' = GroupByQueryOrderSubjectLeft(ky, kx)
    /\ cs' = BySubjectPosition(kx, ky)
    /\ csr' = BySubjectPosition(ky, kx)
    /\ cpc' = "compared"
    /\ UNCHANGED << rx, ry, kx, ky, kxs, ux, uy, mergeVars, cullVars, splitVars,
                    forwardVars, mainVars, threadVars, recipVars >>

CodecNext == Marshal \/ Unmarshal \/ Compare

SpecCodec == CodecInit /\ [][CodecNext]_vars

(***************************************************************************)
(* Properties of the codec.                                                *)
(***************************************************************************)
\* C5: a record with canonical coordinates (subject start <= subject end)
\* is given back by unmarshal(marshal(R)) in every key field: subject
\* accession, subject left and right, query accession, query start and end,
\* bit score and strand.
CodecRoundTrip ==
    (cpc \in {"unmarshalled", "compared"} /\ rx.SubjectStart <= rx.SubjectEnd) =>
        /\ ux.SubjectAccVer = rx.SubjectAccVer
        /\ ux.SubjectLeft = rx.SubjectStart
        /\ ux.SubjectRight = rx.SubjectEnd
        /\ ux.QueryAccVer = rx.QueryAccVer
        /\ ux.QueryStart = rx.QueryStart
        /\ ux.QueryEnd = rx.QueryEnd
        /\ ux.BitScore = rx.BitScore
        /\ ux.Strand = rx.Strand

\* A canonical record with distinct query coordinates, a multi-byte
\* coordinate and a negative strand has been marshalled and unmarshalled.
CodecRoundTripWitness ==
    /\ cpc = "unmarshalled"
    /\ rx.SubjectStart < rx.SubjectEnd /\ rx.SubjectEnd = 300
    /\ rx.QueryStart # rx.QueryEnd /\ rx.Strand = -1 /\ rx.BitScore = 3
    /\ ux.SubjectRight = 300 /\ ux.Strand = -1

\* C6: the key of a record with subject start > subject end is byte-equal to
\* the key of the record with subject start/end exchanged and query
\* start/end exchanged; a key always has subject left <= subject right, and
\* the query coordinates are exchanged exactly when the subject coordinates
\* are.
Canonicalization ==
    (cpc \in {"unmarshalled", "compared"}) =>
        /\ rx.SubjectStart > rx.SubjectEnd => kx = kxs
        /\ ux.SubjectLeft <= ux.SubjectRight
        /\ IF rx.SubjectStart > rx.SubjectEnd
           THEN /\ ux.SubjectLeft = rx.SubjectEnd /\ ux.SubjectRight = rx.SubjectStart
                /\ ux.QueryStart = rx.QueryEnd /\ ux.QueryEnd = rx.QueryStart
           ELSE /\ ux.SubjectLeft = rx.SubjectStart /\ ux.SubjectRight = rx.SubjectEnd
                /\ ux.QueryStart = rx.QueryStart /\ ux.QueryEnd = rx.QueryEnd

\* A record with subject start > subject end and distinct query coordinates
\* has been marshalled.
CanonicalizationWitness ==
    /\ cpc = "unmarshalled"
    /\ rx.SubjectStart > rx.SubjectEnd /\ rx.QueryStart # rx.QueryEnd
    /\ kx = kxs /\ ux.QueryStart = rx.QueryEnd

(***************************************************************************)
(* Properties of the comparators.                                          *)
(***************************************************************************)
\* -1, 0 or 1 as a is below, equal to or above b in the ascending order of
\* the field: bytewise for the accessions, numeric for the others.
FieldCmp(f, a, b) ==
    IF f \in {"QueryAccVer", "SubjectAccVer"}
    THEN (IF StrLess(a[f], b[f]) THEN -1 ELSE IF StrLess(b[f], a[f]) THEN 1 ELSE 0)
    ELSE (IF a[f] < b[f] THEN -1 ELSE IF a[f] > b[f] THEN 1 ELSE 0)

\* The result a cascade of <<field, direction>> gives for two keys: the
\* direction times the comparison of the first field in which they differ.
CascadeCmp(cascade, a, b) ==
    LET differing == { j \in 1..Len(cascade) : FieldCmp(cascade[j][1], a, b) # 0 }
    IN  IF differing = {} THEN 0
        ELSE LET j == CHOOSE m \in differing : \A o \in differing : m <= o
             IN  cascade[j][2] * FieldCmp(cascade[j][1], a, b)

GroupByQueryCascade ==
    << <<"Strand", -1>>, <<"QueryAccVer", 1>>, <<"SubjectAccVer", 1>>,
       <<"SubjectLeft", 1>>, <<"SubjectRight", 1>>, <<"BitScore", -1>>,
       <<"QueryStart", 1>>, <<"QueryEnd", 1>> >>

BySubjectCascade ==
    << <<"Strand", -1>>, <<"SubjectAccVer", 1>>, <<"SubjectLeft", 1>>,
       <<"SubjectRight", -1>>, <<"BitScore", -1>>, <<"QueryAccVer", 1>>,
       <<"QueryStart", 1>>, <<"QueryEnd", 1>> >>

\* C7: for two keys made by MarshalBlastRecordKey both comparators give 0
\* when the keys are byte-equal and a non-zero value when they are
\* byte-distinct; neither reaches its panic("unreachable").
ComparatorTotality ==
    cpc = "compared" =>
        /\ cg # Unreachable /\ cs # Unreachable
        /\ cgr # Unreachable /\ csr # Unreachable
        /\ kx = ky => (cg = 0 /\ cs = 0)
        /\ kx # ky => (cg \in {-1, 1} /\ cs \in {-1, 1})

\* Two byte-distinct keys that differ in the last field of both cascades
\* only have been compared.
ComparatorTotalityWitness ==
    /\ cpc = "compared" /\ kx # ky
    /\ ux.QueryEnd # uy.QueryEnd
    /\ [ux EXCEPT !.QueryEnd = 0] = [uy EXCEPT !.QueryEnd = 0]
    /\ cg \in {-1, 1} /\ cs \in {-1, 1}

\* C8: GroupByQueryOrderSubjectLeft orders two distinct keys by the first
\* differing field of: strand descending, query accession, subject
\* accession, subject left, subject right ascending, bit score descending,
\* query start, query end ascending; and cmp(x, y) = -cmp(y, x).
GroupByQueryOrder ==
    cpc = "compared" =>
        /\ kx # ky => cg = CascadeCmp(GroupByQueryCascade, ux, uy)
        /\ cg = -cgr

\* Two keys that differ in bit score and in both query coordinates and in
\* nothing before the bit score have been compared: the higher bit score
\* comes first.
GroupByQueryOrderWitness ==
    /\ cpc = "compared"
    /\ ux.BitScore > uy.BitScore
    /\ ux.QueryStart > uy.QueryStart /\ ux.QueryEnd > uy.QueryEnd
    /\ ux.Strand = uy.Strand /\ ux.QueryAccVer = uy.QueryAccVer
    /\ ux.SubjectAccVer = uy.SubjectAccVer
    /\ ux.SubjectLeft = uy.SubjectLeft /\ ux.SubjectRight = uy.SubjectRight
    /\ cg = -1 /\ cgr = 1

\* C9: BySubjectPosition orders two distinct keys by the first differing
\* field of: strand descending, subject accession, subject left ascending,
\* subject right descending, bit score descending, query accession, query
\* start, query end ascending; and cmp(x, y) = -cmp(y, x).
BySubjectPositionOrder ==
    cpc = "compared" =>
        /\ kx # ky => cs = CascadeCmp(BySubjectCascade, ux, uy)
        /\ cs = -csr

\* Two keys with the same strand, subject and subject left have been
\* compared: the longer one comes first although its bit score is lower and
\* its query accession is greater.
BySubjectPositionOrderWitness ==
    /\ cpc = "compared"
    /\ ux.Strand = uy.Strand /\ ux.SubjectAccVer = uy.SubjectAccVer
    /\ ux.SubjectLeft = uy.SubjectLeft /\ ux.SubjectRight > uy.SubjectRight
    /\ ux.BitScore < uy.BitScore /\ StrLess(uy.QueryAccVer, ux.QueryAccVer)
    /\ cs = -1 /\ csr = 1

(***************************************************************************)
(* modernc.org/kv as the pipeline uses it: a store is the sequence of its  *)
(* items [k, v] in the order of its comparator.                            *)
(***************************************************************************)
\* The Compare function of the kv.Options a store was created or opened with.
CompareWith(opts, x, y) ==
    IF opts = "GroupByQueryOrderSubjectLeft"
    THEN GroupByQueryOrderSubjectLeft(x, y)
    ELSE BySubjectPosition(x, y)

\* DB.Set: the item with a key that compares equal is replaced, otherwise
\* the item is inserted after the keys that compare below k.
Set(db, opts, k, v) ==
    LET p == Cardinality({ j \in 1..Len(db) : CompareWith(opts, db[j].k, k) < 0 })
    IN  IF p < Len(db) /\ CompareWith(opts, db[p + 1].k, k) = 0
        THEN [db EXCEPT ![p + 1] = [k |-> k, v |-> v]]
        ELSE SubSeq(db, 1, p) \o << [k |-> k, v |-> v] >> \o SubSeq(db, p + 1, Len(db))

\* DB.Delete: the item with a key that compares equal is removed.
Delete(db, opts, k) ==
    LET p == Cardinality({ j \in 1..Len(db) : CompareWith(opts, db[j].k, k) < 0 })
    IN  IF p < Len(db) /\ CompareWith(opts, db[p + 1].k, k) = 0
        THEN SubSeq(db, 1, p) \o SubSeq(db, p + 2, Len(db))
        ELSE db

(***************************************************************************)
(* The forward store.                                                      *)
(***************************************************************************)
\* Subject intervals of the forward hits, as <<start, end>> on the plus
\* strand; a hit on the minus strand has them exchanged.
HitSpans == { <<0, 10>>, <<0, 50>>, <<40, 45>>, <<41, 45>>, <<76, 80>> }

\* The records ParseTabular makes: the strand follows from the order of the
\* subject coordinates and the query coordinates are in order.
ForwardRecords ==
    { Record(q, s, 0, 2, sp[1], sp[2], 1, 1, 0) :
        q \in QueryAccs, s \in SubjectAccs, sp \in HitSpans }
    \cup
    { Record(q, s, 0, 2, sp[2], sp[1], 1, -1, 0) :
        q \in QueryAccs, s \in SubjectAccs, sp \in HitSpans }

\* runBlastTabular persisting one hit: hits.Set(key, value).
ForwardSet ==
    /\ mpc = "idle"
    /\ Len(hits) < MaxHits
    /\ \E h \in ForwardRecords :
          hits' = Set(hits, "GroupByQueryOrderSubjectLeft", MarshalBlastRecordKey(h), h)
    /\ UNCHANGED << mpc, it, last, n, i, inTx, txDepth, regions, mret,
                    codecVars, cullVars, splitVars,
                    forwardVars, mainVars, threadVars, recipVars >>

(***************************************************************************)
(* cmd/ins/fragment.go: merge.                                             *)
(***************************************************************************)
\* The distance within which hits are merged.
near == 30
\* The number of region writes of one transaction.
batch == 100

\* Mutant: a gap of exactly near is not merged.
MergeableStrictlyWithin(r, l, nr) ==
    /\ r.SubjectLeft - l.SubjectRight < nr
    /\ r.Strand = l.Strand
    /\ r.SubjectAccVer = l.SubjectAccVer
    /\ r.QueryAccVer = l.QueryAccVer

\* The test of merge for adding the record r to the running region l.
Mergeable(r, l, nr) ==
    /\ r.SubjectLeft - l.SubjectRight <= nr
    /\ r.Strand = l.Strand
    /\ r.SubjectAccVer = l.SubjectAccVer
    /\ r.QueryAccVer = l.QueryAccVer

\* Mutant: the right end of the region is the right end of the last record.
ExtendToLatest(l, r) == [l EXCEPT !.SubjectRight = r.SubjectRight]

\* The running region l after the record r has been added to it.
Extend(l, r) ==
    IF r.SubjectRight > l.SubjectRight
    THEN [l EXCEPT !.SubjectRight = r.SubjectRight]
    ELSE l

\* Mutant: the region key keeps the query coordinates of its first hit.
RegionKeyWithQuery(l) ==
    MarshalBlastRecordKey(
        Record(l.QueryAccVer, l.SubjectAccVer, l.QueryStart, l.QueryEnd,
               l.SubjectLeft, l.SubjectRight, 0, l.Strand, 0))

\* The key merge writes for the running region l.
RegionKey(l) ==
    MarshalBlastRecordKey(
        Record(l.QueryAccVer, l.SubjectAccVer, 0, 0, l.SubjectLeft, l.SubjectRight,
               0, l.Strand, 0))

\* merge up to its loop: the regions store is created and the first record
\* of the forward store becomes the running region; merge returns nil, nil
\* when the forward store has no record.
MergeStart ==
    /\ mpc = "idle"
    /\ regions' = <<>>
    /\ IF Len(hits) = 0
       THEN \* return nil, nil
            /\ mpc' = "empty"
            /\ mret' = [regions |-> "nil", err |-> "nil"]
            /\ UNCHANGED << it, last, n, i, inTx, txDepth >>
       ELSE /\ last' = [UnmarshalBlastRecordKey(hits[1].k)
                           EXCEPT !.QueryStart = 0, !.QueryEnd = 0]
            /\ it' = 2
            /\ n' = 1
            /\ i' = 0
            /\ inTx' = FALSE
            /\ txDepth' = 0
            /\ mpc' = "loop"
            /\ UNCHANGED mret
    /\ UNCHANGED << hits, codecVars, cullVars, splitVars,
                    forwardVars, mainVars, threadVars, recipVars >>

\* One iteration of the loop of merge.
MergeNext ==
    /\ mpc = "loop"
    /\ IF it > Len(hits)
       THEN \* io.EOF
            /\ txDepth' = IF inTx THEN txDepth - 1 ELSE txDepth
            /\ mpc' = "final"
            /\ UNCHANGED << it, last, n, i, inTx, regions >>
       ELSE LET begin == i % batch = 0
                depth == IF begin THEN txDepth + 1 ELSE txDepth
                open  == IF begin THEN TRUE ELSE inTx
                r     == UnmarshalBlastRecordKey(hits[it].k)
            IN  /\ it' = it + 1
                /\ IF Mergeable(r, last, near)
                   THEN /\ last' = Extend(last, r)
                        /\ n' = n + 1
                        /\ txDepth' = depth
                        /\ inTx' = open
                        /\ UNCHANGED << i, regions, mpc >>
                   ELSE /\ regions' = Set(regions, "GroupByQueryOrderSubjectLeft",
                                          RegionKey(last), MarshalInt(n))
                        /\ last' = r
                        /\ n' = 1
                        /\ IF i % batch = batch - 1
                           THEN txDepth' = depth - 1 /\ inTx' = FALSE
                           ELSE txDepth' = depth /\ inTx' = open
                        /\ i' = i + 1
                        /\ UNCHANGED mpc
    /\ UNCHANGED << hits, mret, codecVars, cullVars, splitVars,
                    forwardVars, mainVars, threadVars, recipVars >>

\* What regions.Last() can give: the last key of a store with items.  On a
\* store without items the kv package decides, and merge is written for
\* io.EOF; the other outcome is a nil key with a nil error.
LastOf(db) == IF Len(db) = 0 THEN {"EOF", "nil"} ELSE {"key"}

\* Mutant: the running region is written only when regions.Last() gave
\* io.EOF.
FinalWriteIfEmpty(f, db, l) == f = "EOF"

\* The test of merge after its loop, with f what regions.Last() gave:
\* io.EOF, or the running region differs from the decoded last key of the
\* regions store.
FinalWrite(f, db, l) == f = "EOF" \/ l # UnmarshalBlastRecordKey(db[Len(db)].k)

\* merge after its loop: the running region is written unless it equals the
\* last key of the regions store.  A nil key with a nil error reaches
\* UnmarshalBlastRecordKey, which slices the first eight bytes of it and
\* panics.
MergeFinal ==
    /\ mpc = "final"
    /\ \E f \in LastOf(regions) :
          IF f = "nil"
          THEN /\ mpc' = "panic"
               /\ UNCHANGED << regions, mret >>
          ELSE /\ IF FinalWrite(f, regions, last)
                  THEN regions' = Set(regions, "GroupByQueryOrderSubjectLeft",
                                      RegionKey(last), MarshalInt(n))
                  ELSE UNCHANGED regions
               /\ mpc' = "done"
               /\ mret' = [regions |-> "regions", err |-> "nil"]
    /\ UNCHANGED << hits, it, last, n, i, inTx, txDepth, codecVars, cullVars, splitVars,
                    forwardVars, mainVars, threadVars, recipVars >>

MergeInit ==
    MergeIdle /\ CodecIdle /\ CullIdle /\ SplitIdle /\ ForwardIdle /\ MainIdle /\ ThreadIdle
    /\ RecipIdle

MergeSpecNext == ForwardSet \/ MergeStart \/ MergeNext \/ MergeFinal

SpecMerge == MergeInit /\ [][MergeSpecNext]_vars

(***************************************************************************)
(* Properties of merge.                                                    *)
(***************************************************************************)
Min(a, b) == IF a < b THEN a ELSE b
Max(a, b) == IF a > b THEN a ELSE b

\* The regions of the regions store, decoded.
Regions == [j \in 1..Len(regions) |-> UnmarshalBlastRecordKey(regions[j].k)]

\* The region R is on the subject, query and strand of the hit H and spans it.
Covers(R, H) ==
    /\ R.SubjectAccVer = H.SubjectAccVer
    /\ R.QueryAccVer = H.QueryAccVer
    /\ R.Strand = H.Strand
    /\ R.SubjectLeft <= Min(H.SubjectStart, H.SubjectEnd)
    /\ Max(H.SubjectStart, H.SubjectEnd) <= R.SubjectRight

\* C1: after merge over a non-empty forward store, every forward hit H has
\* exactly one region in the regions store with its subject accession,
\* query accession and strand that spans H's canonical left and right.
MergerCoverage ==
    mpc = "done" =>
        \A h \in 1..Len(hits) :
            Cardinality({ j \in 1..Len(regions) : Covers(Regions[j], hits[h].v) }) = 1

\* merge has finished over a store where a hit lies inside an earlier,
\* longer hit of its region and another region of the same subject, query
\* and strand follows.
MergerCoverageWitness ==
    /\ mpc = "done" /\ Len(hits) = 3 /\ Len(regions) = 2
    /\ \E a, b, c \in 1..3 :
          /\ hits[a].v.SubjectStart = 0 /\ hits[a].v.SubjectEnd = 50
          /\ hits[b].v.SubjectStart = 40 /\ hits[b].v.SubjectEnd = 45
          /\ Covers(Regions[1], hits[a].v) /\ Covers(Regions[1], hits[b].v)
          /\ Covers(Regions[2], hits[c].v)
          /\ Regions[1].SubjectAccVer = Regions[2].SubjectAccVer
          /\ Regions[1].QueryAccVer = Regions[2].QueryAccVer

\* The hit G starts at or after the hit H, on its subject, query and strand,
\* at most near after the end of H.
Near(H, G) ==
    /\ G.SubjectAccVer = H.SubjectAccVer
    /\ G.QueryAccVer = H.QueryAccVer
    /\ G.Strand = H.Strand
    /\ Min(G.SubjectStart, G.SubjectEnd) >= Min(H.SubjectStart, H.SubjectEnd)
    /\ Min(G.SubjectStart, G.SubjectEnd) - Max(H.SubjectStart, H.SubjectEnd) <= near

\* C2: after merge, two regions adjacent in the regions store that share
\* query accession, subject accession and strand are more than near (30)
\* apart, and two hits with a gap of at most near, exactly near included,
\* are in one region.
MergerMinimality ==
    mpc = "done" =>
        /\ \A j \in 1..(Len(regions) - 1) :
              ( /\ Regions[j].QueryAccVer = Regions[j + 1].QueryAccVer
                /\ Regions[j].SubjectAccVer = Regions[j + 1].SubjectAccVer
                /\ Regions[j].Strand = Regions[j + 1].Strand )
              => Regions[j + 1].SubjectLeft - Regions[j].SubjectRight > near
        /\ \A g, h \in 1..Len(hits) :
              Near(hits[h].v, hits[g].v) =>
                  \E j \in 1..Len(regions) :
                      Covers(Regions[j], hits[h].v) /\ Covers(Regions[j], hits[g].v)

\* merge has finished over a store with two hits exactly near apart, which
\* are in one region, and a third hit of the same subject, query and strand
\* that is near + 1 after that region, which is in the next region.
MergerMinimalityWitness ==
    /\ mpc = "done" /\ Len(regions) = 2
    /\ Regions[1].SubjectAccVer = Regions[2].SubjectAccVer
    /\ Regions[1].QueryAccVer = Regions[2].QueryAccVer
    /\ Regions[1].Strand = Regions[2].Strand
    /\ Regions[2].SubjectLeft - Regions[1].SubjectRight = near + 1
    /\ \E g, h \in 1..Len(hits) :
          /\ Covers(Regions[1], hits[h].v) /\ Covers(Regions[1], hits[g].v)
          /\ Min(hits[g].v.SubjectStart, hits[g].v.SubjectEnd)
               - Max(hits[h].v.SubjectStart, hits[h].v.SubjectEnd) = near

\* C16: merge called on a forward store that has no records fails with the
\* Empty error: the error it returns is not nil, and it never returns a nil
\* error together with a nil regions store.
MergeEmptyError ==
    (mpc \in {"empty", "done"} /\ Len(hits) = 0) =>
        (mret.err # "nil" /\ ~(mret.err = "nil" /\ mret.regions = "nil"))

\* The positions in the forward store of the hits the region R spans.
Members(R) == { h \in 1..Len(hits) : Covers(R, hits[h].v) }

RECURSIVE SumCounts(_)
\* The sum of the counts held as values by the first j regions.
SumCounts(j) == IF j = 0 THEN 0 ELSE Uint64(regions[j].v) + SumCounts(j - 1)

\* C18: every entry of the regions store written by merge has query_start =
\* query_end = 0 in its key, subject_left the smallest canonical left and
\* subject_right the largest right of its member hits, and as value the
\* big-endian count of its member hits; when merge has returned the counts
\* of all regions add up to the number of records of the forward store.
RegionKeysAndCounts ==
    /\ \A j \in 1..Len(regions) :
          LET R == Regions[j]
              M == Members(R)
          IN  /\ R.QueryStart = 0 /\ R.QueryEnd = 0
              /\ M # {}
              /\ \E h \in M : Min(hits[h].v.SubjectStart, hits[h].v.SubjectEnd)
                                = R.SubjectLeft
              /\ \A h \in M : Min(hits[h].v.SubjectStart, hits[h].v.SubjectEnd)
                                >= R.SubjectLeft
              /\ \E h \in M : Max(hits[h].v.SubjectStart, hits[h].v.SubjectEnd)
                                = R.SubjectRight
              /\ \A h \in M : Max(hits[h].v.SubjectStart, hits[h].v.SubjectEnd)
                                <= R.SubjectRight
              /\ regions[j].v = << 0, 0, 0, 0, 0, 0, 0, Cardinality(M) >>
    /\ mpc = "done" => SumCounts(Len(regions)) = Len(hits)

\* merge has returned two regions of one query, subject and strand: the
\* first holds a hit 0-50 and a hit 40-45 inside it, so its right end is
\* that of the earlier hit and its count is 2; the second holds one hit
\* after the first hit of the store.
RegionKeysAndCountsWitness ==
    /\ mpc = "done" /\ Len(hits) = 3 /\ Len(regions) = 2
    /\ Regions[1].SubjectLeft = 0 /\ Regions[1].SubjectRight = 50
    /\ \E h \in Members(Regions[1]) :
          hits[h].v.SubjectStart = 40 /\ hits[h].v.SubjectEnd = 45
    /\ Uint64(regions[1].v) = 2 /\ Uint64(regions[2].v) = 1
    /\ Regions[2].QueryAccVer = Regions[1].QueryAccVer
    /\ Regions[2].SubjectLeft = 76 /\ Regions[2].SubjectRight = 80

\* C19: BeginTransaction is never called while a transaction begun by merge
\* is still open, every BeginTransaction is matched by one Commit, and when
\* merge returns successfully no transaction is left open: at most one
\* transaction is open at any time and none when merge has returned.
TransactionsBalanced ==
    /\ txDepth <= 1
    /\ mpc = "done" => txDepth = 0


\* The items of the regions store with the key of the running region.
Pending == { j \in 1..Len(regions) : regions[j].k = RegionKey(last) }

\* C26: when merge has returned successfully the region that was pending at
\* the end of the forward store is in the regions store exactly once, with
\* its member count; the write after the loop is done iff that region is
\* not yet in the store.
FinalRegionOnce ==
    /\ [](mpc = "done" =>
            /\ Cardinality(Pending) = 1
            /\ \A j \in Pending : regions[j].v = MarshalInt(n))
    /\ [][(mpc = "final" /\ mpc' = "done") =>
            /\ (regions' # regions) <=> (Pending = {})
            /\ Len(regions') = Len(regions) + (IF Pending = {} THEN 1 ELSE 0)]_vars

\* merge has returned from a forward store of three hits: the first was
\* written as a region in the loop, the other two merged into the region
\* pending at the end, which the write after the loop added behind it.
FinalRegionOnceWitness ==
    /\ mpc = "done" /\ Len(hits) = 3 /\ n = 2
    /\ Len(regions) = 2 /\ Pending = {2}
    /\ regions[1].v = MarshalInt(1)
    /\ regions[2].v = MarshalInt(2)

(***************************************************************************)
(* kv enumerators.  An enumerator is the key of the item it stands on, Nil *)
(* at the end of the store; when the store has changed since the           *)
(* enumerator was positioned, Next seeks that key again and so continues   *)
(* with the first remaining item at or after it.                           *)
(***************************************************************************)
\* The position of the first item whose key is not below k.
SeekPos(db, opts, k) ==
    Cardinality({ j \in 1..Len(db) : CompareWith(opts, db[j].k, k) < 0 }) + 1

\* DB.SeekFirst.
SeekFirst(db) == IF Len(db) = 0 THEN Nil ELSE db[1].k

\* DB.Seek: the enumerator and whether k itself was found.
Seek(db, opts, k) ==
    LET p == SeekPos(db, opts, k)
    IN  [it |-> IF p > Len(db) THEN Nil ELSE db[p].k,
         ok |-> p <= Len(db) /\ CompareWith(opts, db[p].k, k) = 0]

\* Mutant: Next gives the key the enumerator was positioned on, whether or
\* not the item is still in the store.
EnumNextStale(db, opts, e) ==
    LET p == IF e = Nil THEN Len(db) + 1 ELSE SeekPos(db, opts, e)
        q == IF p <= Len(db) /\ db[p].k = e THEN p + 1 ELSE p
    IN  IF e = Nil
        THEN [eof |-> TRUE, k |-> Nil, it |-> Nil]
        ELSE [eof |-> FALSE, k |-> e,
              it |-> IF q <= Len(db) THEN db[q].k ELSE Nil]

\* Enumerator.Next: the item the enumerator stands on and the enumerator
\* moved to the following item, or eof.
EnumNext(db, opts, e) ==
    LET p == IF e = Nil THEN Len(db) + 1 ELSE SeekPos(db, opts, e)
    IN  IF p > Len(db)
        THEN [eof |-> TRUE, k |-> Nil, it |-> Nil]
        ELSE [eof |-> FALSE, k |-> db[p].k,
              it |-> IF p < Len(db) THEN db[p + 1].k ELSE Nil]

(***************************************************************************)
(* The reverse store.                                                      *)
(***************************************************************************)
\* Subject intervals of the reciprocal hits on subject "a", plus strand.
RevSpans == { <<0, 100>>, <<0, 50>>, <<60, 120>>, <<70, 100>>, <<100, 120>> }

\* <<bit score, sum score, query accession>> of the reciprocal hits.
RevScores == { <<1, 1, <<113>> >>, <<1, 2, <<113>> >>, <<1, 2, <<113, 50>> >>,
               <<3, 1, <<113>> >> }

\* The records put in the reverse store: every interval and score on the
\* plus strand of "a", and low scoring hits on the minus strand of "a" and
\* on "b1".
ReverseRecords ==
    { Record(sc[3], <<97>>, 0, 2, sp[1], sp[2], sc[1], 1, sc[2]) :
        sp \in RevSpans, sc \in RevScores }
    \cup
    { Record(<<113>>, <<97>>, 0, 2, sp[2], sp[1], 1, -1, 1) :
        sp \in { <<0, 50>>, <<70, 100>> } }
    \cup
    { Record(<<113>>, <<98, 49>>, 0, 2, sp[1], sp[2], 1, 1, 1) :
        sp \in { <<0, 50>>, <<70, 100>> } }

\* The reciprocal pass persisting one hit: remappedHits.Set(key, value).
ReverseSet ==
    /\ kpc = "idle"
    /\ Len(rev) < MaxRev
    /\ \E h \in ReverseRecords :
          rev' = Set(rev, "BySubjectPosition", MarshalBlastRecordKey(h), h)
    /\ UNCHANGED << rev0, kpc, outerIt, candIt, outer, deleted,
                    codecVars, mergeVars, splitVars,
                    forwardVars, mainVars, threadVars, recipVars >>

(***************************************************************************)
(* cmd/ins: cullContained.                                                 *)
(***************************************************************************)
\* The sum score of the item with key k: the tiebreaker carried with the
\* record, which cullContained reads as the SumScore of the decoded key.
SumScoreOf(db, k) == db[SeekPos(db, "BySubjectPosition", k)].v.SumScore

\* store.UnmarshalBlastRecordKey(k) as cullContained reads it: the key
\* fields together with the sum score.
CullKey(db, k) ==
    LET u == UnmarshalBlastRecordKey(k)
    IN  [SubjectAccVer |-> u.SubjectAccVer, SubjectLeft |-> u.SubjectLeft,
         SubjectRight |-> u.SubjectRight, QueryAccVer |-> u.QueryAccVer,
         QueryStart |-> u.QueryStart, QueryEnd |-> u.QueryEnd,
         BitScore |-> u.BitScore, Strand |-> u.Strand,
         SumScore |-> SumScoreOf(db, k)]

\* Mutant: a candidate with the scores of the outer record is deleted too.
DominatedOrEqual(in, out) ==
    \/ in.BitScore < out.BitScore
    \/ (in.BitScore = out.BitScore /\ in.SumScore <= out.SumScore)

\* The test of cullContained for deleting the candidate in under out.
Dominated(in, out) ==
    \/ in.BitScore < out.BitScore
    \/ (in.BitScore = out.BitScore /\ in.SumScore < out.SumScore)

\* Mutant: the scan of the candidates stops at the first candidate that
\* reaches beyond the outer record.
InnerStepStopAtLonger(in, out) ==
    IF in.Strand # out.Strand \/ in.SubjectAccVer # out.SubjectAccVer THEN "break"
    ELSE IF in.SubjectLeft >= out.SubjectRight THEN "break"
    ELSE IF in.SubjectRight > out.SubjectRight THEN "break"
    ELSE IF Dominated(in, out) THEN "delete"
    ELSE "keep"

\* Mutant: the scan of the candidates goes on behind the right end of the
\* outer record.
InnerStepScanOn(in, out) ==
    IF in.Strand # out.Strand \/ in.SubjectAccVer # out.SubjectAccVer THEN "break"
    ELSE IF in.SubjectLeft >= out.SubjectRight THEN "continue"
    ELSE IF in.SubjectRight > out.SubjectRight THEN "continue"
    ELSE IF Dominated(in, out) THEN "delete"
    ELSE "keep"

\* What the body of the candidate loop does with the candidate in.
InnerStep(in, out) ==
    IF in.Strand # out.Strand \/ in.SubjectAccVer # out.SubjectAccVer THEN "break"
    ELSE IF in.SubjectLeft >= out.SubjectRight THEN "break"
    ELSE IF in.SubjectRight > out.SubjectRight THEN "continue"
    ELSE IF Dominated(in, out) THEN "delete"
    ELSE "keep"

\* cullContained up to its loop: the outer enumerator is opened; SeekFirst
\* fails with io.EOF on a store without items.
CullStart ==
    /\ kpc = "idle"
    /\ rev0' = rev
    /\ outerIt' = SeekFirst(rev)
    /\ kpc' = IF Len(rev) = 0 THEN "error" ELSE "outer"
    /\ UNCHANGED << rev, candIt, outer, deleted, codecVars, mergeVars, splitVars,
                    forwardVars, mainVars, threadVars, recipVars >>

\* Mutant: one enumerator serves both loops, so the outer loop goes on
\* where the scan of the candidates ended.
CullOuterShared ==
    /\ kpc = "outer"
    /\ LET o == EnumNext(rev, "BySubjectPosition", IF outer = Nil THEN outerIt ELSE candIt)
       IN  IF o.eof
           THEN /\ kpc' = "done"
                /\ outerIt' = o.it
                /\ UNCHANGED << outer, candIt >>
           ELSE LET c    == Seek(rev, "BySubjectPosition", o.k)
                    self == EnumNext(rev, "BySubjectPosition", c.it)
                IN  /\ outerIt' = o.it
                    /\ outer' = o.k
                    /\ IF ~c.ok
                       THEN kpc' = "panic" /\ candIt' = c.it
                       ELSE IF self.eof
                       THEN kpc' = "outer" /\ candIt' = self.it
                       ELSE kpc' = "inner" /\ candIt' = self.it
    /\ UNCHANGED << rev, rev0, deleted, codecVars, mergeVars, splitVars,
                    forwardVars, mainVars, threadVars, recipVars >>

\* One iteration of the outer loop up to the candidate loop: the next outer
\* record is read and the candidate enumerator is opened just after it.
CullOuter ==
    /\ kpc = "outer"
    /\ LET o == EnumNext(rev, "BySubjectPosition", outerIt)
       IN  IF o.eof
           THEN /\ kpc' = "done"
                /\ outerIt' = o.it
                /\ UNCHANGED << outer, candIt >>
           ELSE LET c    == Seek(rev, "BySubjectPosition", o.k)
                    self == EnumNext(rev, "BySubjectPosition", c.it)
                IN  /\ outerIt' = o.it
                    /\ outer' = o.k
                    /\ IF ~c.ok
                       THEN kpc' = "panic" /\ candIt' = c.it
                       ELSE IF self.eof
                       THEN kpc' = "outer" /\ candIt' = self.it
                       ELSE kpc' = "inner" /\ candIt' = self.it
    /\ UNCHANGED << rev, rev0, deleted, codecVars, mergeVars, splitVars,
                    forwardVars, mainVars, threadVars, recipVars >>

\* One iteration of the candidate loop.
CullInner ==
    /\ kpc = "inner"
    /\ LET c == EnumNext(rev, "BySubjectPosition", candIt)
       IN  IF c.eof
           THEN /\ kpc' = "outer"
                /\ candIt' = c.it
                /\ UNCHANGED << rev, deleted >>
           ELSE LET step == InnerStep(CullKey(rev, c.k), CullKey(rev, outer))
                IN  /\ candIt' = c.it
                    /\ kpc' = IF step = "break" THEN "outer" ELSE "inner"
                    /\ IF step = "delete"
                       THEN /\ rev' = Delete(rev, "BySubjectPosition", c.k)
                            /\ deleted' = deleted \cup {c.k}
                       ELSE UNCHANGED << rev, deleted >>
    /\ UNCHANGED << rev0, outerIt, outer, codecVars, mergeVars, splitVars,
                    forwardVars, mainVars, threadVars, recipVars >>

CullInit ==
    CullIdle /\ CodecIdle /\ MergeIdle /\ SplitIdle /\ ForwardIdle /\ MainIdle /\ ThreadIdle
    /\ RecipIdle

CullNext == ReverseSet \/ CullStart \/ CullOuter \/ CullInner

SpecCull == CullInit /\ [][CullNext]_vars

\* cullContained is sequential code: a loop that can take its next step
\* takes it.  For the two loops this is weak fairness of CullOuter \/ CullInner
\* with its enabling condition written out: one of the two can step, and
\* changes the state, exactly when kpc is "outer" or "inner".
SpecCullFair ==
    /\ CullInit /\ [][CullNext]_vars
    /\ WF_vars(CullStart)
    /\ ([]<>(kpc \notin {"outer", "inner"}) \/ []<><<CullOuter \/ CullInner>>_vars)

(***************************************************************************)
(* Properties of cullContained.                                            *)
(***************************************************************************)
\* The canonical left and right of a record.
Left(h) == Min(h.SubjectStart, h.SubjectEnd)
Right(h) == Max(h.SubjectStart, h.SubjectEnd)

SameLocus(A, B) == A.SubjectAccVer = B.SubjectAccVer /\ A.Strand = B.Strand

\* The span of A lies within the span of B.
Within(A, B) == Left(B) <= Left(A) /\ Right(A) <= Right(B)

\* (A.bitscore, A.sum_score) is lexicographically below (B.bitscore, B.sum_score).
ScoreBelow(A, B) ==
    \/ A.BitScore < B.BitScore
    \/ (A.BitScore = B.BitScore /\ A.SumScore < B.SumScore)

\* C3: when cullContained has finished on a reverse store sorted by subject
\* position, no two remaining records A, B of one subject and strand have
\* the span of A a proper subset of the span of B and the scores of A
\* below those of B.
CullerSoundness ==
    kpc = "done" =>
        \A a, b \in 1..Len(rev) :
            ~ ( /\ SameLocus(rev[a].v, rev[b].v)
                /\ Within(rev[a].v, rev[b].v)
                /\ << Left(rev[a].v), Right(rev[a].v) >> # << Left(rev[b].v), Right(rev[b].v) >>
                /\ ScoreBelow(rev[a].v, rev[b].v) )

\* cullContained has finished on a store that held a record, a record that
\* reaches beyond it and behind that a lower scoring record properly inside
\* the first; the record inside is gone.
CullerSoundnessWitness ==
    /\ kpc = "done" /\ Len(rev0) = 3 /\ Len(rev) = 2
    /\ Left(rev0[1].v) = 0 /\ Right(rev0[1].v) = 100 /\ rev0[1].v.BitScore = 3
    /\ Left(rev0[2].v) = 60 /\ Right(rev0[2].v) = 120
    /\ Left(rev0[3].v) = 70 /\ Right(rev0[3].v) = 100 /\ rev0[3].v.BitScore = 1
    /\ SameLocus(rev0[1].v, rev0[2].v) /\ SameLocus(rev0[1].v, rev0[3].v)
    /\ rev0[3].k \in deleted

\* The item x of the original store has not been deleted.
Kept(x) == x.k \notin deleted

\* The record of the original store with key k.
Rec0(k) == rev0[CHOOSE j \in 1..Len(rev0) : rev0[j].k = k].v

\* Some record of the original store other than the one with key k is on
\* the subject and strand of A, spans A and has scores above those of A.
DominatedInOriginal(k, A) ==
    \E b \in 1..Len(rev0) :
        /\ rev0[b].k # k
        /\ SameLocus(A, rev0[b].v)
        /\ Within(A, rev0[b].v)
        /\ ScoreBelow(A, rev0[b].v)

\* C4: cullContained only deletes: the store is at every step the original
\* store without the deleted records, in the original order and with the
\* original values; every deleted record lies within the span of another
\* record of the original store on its subject and strand with strictly
\* greater (bitscore, sum_score); two records of equal span and equal scores
\* are not deleted on account of each other: both are retained when no
\* other record dominates them.
CullerOnlyDeletes ==
    kpc \in {"outer", "inner", "done"} =>
        /\ rev = SelectSeq(rev0, Kept)
        /\ \A d \in deleted :
              /\ \E j \in 1..Len(rev0) : rev0[j].k = d
              /\ DominatedInOriginal(d, Rec0(d))
        /\ kpc = "done" =>
              \A a, b \in 1..Len(rev0) :
                  ( /\ a # b
                    /\ SameLocus(rev0[a].v, rev0[b].v)
                    /\ Left(rev0[a].v) = Left(rev0[b].v)
                    /\ Right(rev0[a].v) = Right(rev0[b].v)
                    /\ rev0[a].v.BitScore = rev0[b].v.BitScore
                    /\ rev0[a].v.SumScore = rev0[b].v.SumScore
                    /\ ~DominatedInOriginal(rev0[a].k, rev0[a].v) )
                  => (Kept(rev0[a]) /\ Kept(rev0[b]))

\* cullContained has finished on a store that held two records of equal
\* span and equal scores and a lower scoring record inside them: the two
\* are retained and the one inside is gone.
CullerOnlyDeletesWitness ==
    /\ kpc = "done" /\ Len(rev0) = 3
    /\ rev0[1].v.BitScore = 1 /\ rev0[1].v.SumScore = 2
    /\ rev0[2].v.BitScore = 1 /\ rev0[2].v.SumScore = 2
    /\ SameLocus(rev0[1].v, rev0[2].v) /\ SameLocus(rev0[1].v, rev0[3].v)
    /\ Left(rev0[1].v) = Left(rev0[2].v) /\ Right(rev0[1].v) = Right(rev0[2].v)
    /\ Within(rev0[3].v, rev0[1].v) /\ rev0[3].v.SumScore = 1
    /\ rev = << rev0[1], rev0[2] >>
    /\ deleted = { rev0[3].k }

\* The positions of the reverse store with keys above k, all positions for
\* no key.
Above(k) ==
    { j \in 1..Len(rev) : k = Nil \/ BySubjectPosition(rev[j].k, k) > 0 }

\* The positions of the reverse store with keys not below k.
AtOrAbove(k) ==
    { j \in 1..Len(rev) : BySubjectPosition(rev[j].k, k) >= 0 }

\* The least position of a set of positions.
First(S) == CHOOSE j \in S : \A o \in S : j <= o

\* The candidate the candidate scan reads next, Nil at the end of the store.
Cand ==
    IF candIt = Nil \/ AtOrAbove(candIt) = {} THEN Nil
    ELSE rev[First(AtOrAbove(candIt))].k

\* The candidate with key c ends the scan for the outer record with key o.
EndsScan(c, o) ==
    \/ UnmarshalBlastRecordKey(c).Strand # UnmarshalBlastRecordKey(o).Strand
    \/ UnmarshalBlastRecordKey(c).SubjectAccVer # UnmarshalBlastRecordKey(o).SubjectAccVer
    \/ UnmarshalBlastRecordKey(c).SubjectLeft >= UnmarshalBlastRecordKey(o).SubjectRight

\* C27: cullContained terminates on every reverse store: once it has begun
\* it finishes; each outer record is above the one before it in the order of
\* the store, so no record is visited twice; each candidate is above the
\* outer record and the candidate enumerator only moves forward; the scan
\* ends exactly at the end of the store or at the first candidate on another
\* strand or subject or with subject left at or behind the subject right of
\* the outer record, whether or not candidates are deleted on the way.
CullTerminates ==
    /\ (kpc \in {"outer", "inner"}) ~> (kpc = "done")
    /\ [][(kpc = "outer" /\ kpc' \in {"outer", "inner"}) =>
            (outer = Nil \/ BySubjectPosition(outer', outer) > 0)]_vars
    /\ [][kpc = "inner" =>
            IF Cand = Nil
            THEN kpc' = "outer"
            ELSE /\ BySubjectPosition(Cand, outer) > 0
                 /\ (kpc' = "outer") <=> EndsScan(Cand, outer)
                 /\ (candIt' = Nil \/ BySubjectPosition(candIt', Cand) > 0)]_vars

\* cullContained has finished on a store of three records of one subject
\* and strand: the second was deleted in the scan for the first, and that
\* scan ended at the third, which begins where the first ends.
CullTerminatesWitness ==
    /\ kpc = "done" /\ Len(rev0) = 3
    /\ SameLocus(rev0[1].v, rev0[2].v) /\ SameLocus(rev0[1].v, rev0[3].v)
    /\ Left(rev0[1].v) = 0 /\ Right(rev0[1].v) = 100
    /\ Left(rev0[2].v) = 70 /\ Right(rev0[2].v) = 100
    /\ Left(rev0[3].v) = 100 /\ Right(rev0[3].v) = 120
    /\ deleted = { rev0[2].k }
    /\ rev = << rev0[1], rev0[3] >>

\* C30: the outer enumerator of cullContained gives, at each step, the first
\* record still in the store above the outer record before it, which is
\* never a deleted one, and ends only when no record is left above; the
\* exact-match Seek on its key finds the key, so cullContained never
\* panics.
OuterIteratorSound ==
    /\ [](kpc # "panic")
    /\ [][kpc = "outer" =>
            IF Above(outer) = {}
            THEN kpc' = "done"
            ELSE /\ outer' = rev[First(Above(outer))].k
                 /\ outer' \notin deleted
                 /\ kpc' \in {"outer", "inner"}]_vars

\* The outer enumerator stood on the second of three records when the scan
\* for the first deleted it; it went on with the third and cullContained
\* finished.
OuterIteratorSoundWitness ==
    /\ kpc = "done" /\ Len(rev0) = 3
    /\ rev0[2].k \in deleted /\ rev0[3].k \notin deleted
    /\ outer = rev0[3].k
    /\ rev0[1].v.BitScore = 3 /\ rev0[2].v.BitScore = 1

(***************************************************************************)
(* cmd/ins/fragment.go: split.  The letters of a sequence are numbered by  *)
(* their offset in the sequence; a description is the tuple of its fields. *)
(***************************************************************************)
\* strconv-style decimal digits of i >= 0, as fmt's %d writes them.
RECURSIVE Itoa(_)
Itoa(x) == IF x < 10 THEN << 48 + x >> ELSE Itoa(x \div 10) \o << 48 + (x % 10) >>

\* fmt.Sprintf("%s_%d", id, i)
FragID(id, x) == id \o << 95 >> \o Itoa(x)

\* fmt.Sprintf("%s %d %d %s", id, start, end, desc)
FragDesc(id, start, end, desc) == << id, start, end, desc >>

fragment(parent, start, end) == [parent |-> parent, start |-> start, end |-> end]

\* frags[id] = f
Assign(m, id, f) == [x \in (DOMAIN m) \cup {id} |-> IF x = id THEN f ELSE m[x]]

\* Mutant: no id is found in the table.
AssignedNever(m, id) == FALSE

\* _, ok := frags[id]
Assigned(m, id) == id \in DOMAIN m

\* Mutant: sequences are cut down to the goal length.
MustCutAboveGoal(len, g, m) == len > g

\* The condition of the loop of split: a sequence longer than max is cut.
MustCut(len, g, m) == len > m

\* The sequences given to split: ids "a" and "b", every length.
InputSeqs ==
    { [ID |-> id, Desc |-> <<100>>, Seq |-> [j \in 1..len |-> j - 1]] :
        id \in { <<97>>, <<98>> }, len \in 0..MaxSeqLen }

RECURSIVE SeqsUpTo(_)
SeqsUpTo(k) ==
    IF k = 0 THEN { <<>> }
    ELSE SeqsUpTo(k - 1) \cup
         { Append(q, x) : q \in { p \in SeqsUpTo(k - 1) : Len(p) = k - 1 }, x \in InputSeqs }

\* split before its first read: the table is empty and the counter is 1.
SplitInit ==
    /\ spc = "scan"
    /\ src \in SeqsUpTo(MaxSeqs)
    /\ goal \in 1..MaxGoal
    /\ max \in 1..(MaxGoal + 1)
    /\ si = 0 /\ seqID = Nil /\ seqRest = <<>> /\ pos = 0
    /\ fi = 1
    /\ frags = <<>>
    /\ dst = <<>> /\ dstSrc = <<>>
    /\ CodecIdle /\ MergeIdle /\ CullIdle /\ ForwardIdle /\ MainIdle /\ ThreadIdle
    /\ RecipIdle

\* sc.Next(): the next sequence is read, or split returns the table.
SplitScan ==
    /\ spc = "scan"
    /\ IF si = Len(src)
       THEN /\ spc' = "done"
            /\ UNCHANGED << si, seqID, seqRest, pos >>
       ELSE /\ si' = si + 1
            /\ pos' = 0
            /\ seqID' = src[si + 1].ID
            /\ seqRest' = src[si + 1].Seq
            /\ spc' = "cut"
    /\ UNCHANGED << src, goal, max, fi, frags, dst, dstSrc, codecVars, mergeVars, cullVars,
                    forwardVars, mainVars, threadVars, recipVars >>

\* One fragment: an iteration of the loop that cuts a sequence longer than
\* max, or the rest of the sequence after the loop.
SplitFragment ==
    /\ spc = "cut"
    /\ IF MustCut(Len(seqRest), goal, max)
       THEN LET c  == Min(Len(seqRest), goal)
                id == FragID(seqID, fi)
            IN  IF Assigned(frags, id)
                THEN /\ spc' = "error"
                     /\ frags' = Nil
                     /\ UNCHANGED << seqRest, pos, fi, dst, dstSrc >>
                ELSE /\ frags' = Assign(frags, id, fragment(seqID, pos, pos + c))
                     /\ dst' = Append(dst, [ID |-> id,
                                            Desc |-> FragDesc(seqID, pos, pos + c, src[si].Desc),
                                            Seq |-> SubSeq(seqRest, 1, c)])
                     /\ dstSrc' = Append(dstSrc, si)
                     /\ seqRest' = SubSeq(seqRest, c + 1, Len(seqRest))
                     /\ pos' = pos + c
                     /\ fi' = fi + 1
                     /\ UNCHANGED spc
       ELSE LET id == FragID(seqID, fi)
            IN  IF Assigned(frags, id)
                THEN /\ spc' = "error"
                     /\ frags' = Nil
                     /\ UNCHANGED << seqRest, pos, fi, dst, dstSrc >>
                ELSE /\ frags' = Assign(frags, id,
                                        fragment(seqID, pos, pos + Len(seqRest)))
                     /\ dst' = Append(dst, [ID |-> id,
                                            Desc |-> FragDesc(seqID, pos, pos + Len(seqRest),
                                                              src[si].Desc),
                                            Seq |-> seqRest])
                     /\ dstSrc' = Append(dstSrc, si)
                     /\ spc' = "scan"
                     /\ UNCHANGED << seqRest, pos, fi >>
    /\ UNCHANGED << src, goal, max, si, seqID, codecVars, mergeVars, cullVars,
                    forwardVars, mainVars, threadVars, recipVars >>

SplitNext == SplitScan \/ SplitFragment

SpecSplit == SplitInit /\ [][SplitNext]_vars

(***************************************************************************)
(* Properties of split.                                                    *)
(***************************************************************************)
\* The positions in dst of the fragments of the s-th input sequence.
FragsOf(s) == { j \in 1..Len(dst) : dstSrc[j] = s }

\* The s-th input sequence has been written out in full.
Finished(s) == s < si \/ (s = si /\ spc \in {"scan", "done"})

\* C10: when goal < max, the fragments split emits for an input sequence of
\* length n are consecutive and cover [0, n) once without gap or overlap:
\* every fragment but the last has length goal and is cut while more than
\* max remains, the last fragment is the rest, which is at most max, no
\* fragment is longer than max, and the table holds for each fragment the
\* parent id and the start and end offsets in the parent.
SplitCovers ==
    goal < max =>
        \A s \in 1..Len(src) :
            LET F == FragsOf(s)
                total == Len(src[s].Seq)
            IN  /\ \A j \in F :
                      LET start == dst[j].Desc[2]
                          end   == dst[j].Desc[3]
                          final == Finished(s) /\ (\A o \in F : o <= j)
                      IN  /\ start = (IF \E o \in F : o < j THEN dst[j - 1].Desc[3] ELSE 0)
                          /\ \A o \in F : o < j => j - 1 \in F
                          /\ dst[j].Seq = SubSeq(src[s].Seq, start + 1, end)
                          /\ Len(dst[j].Seq) = end - start
                          /\ end - start <= max
                          /\ IF final
                             THEN end = total /\ total - start <= max
                             ELSE end - start = goal /\ total - start > max
                          /\ spc # "error" =>
                                /\ dst[j].ID \in DOMAIN frags
                                /\ frags[dst[j].ID] = fragment(src[s].ID, start, end)
                /\ Finished(s) => F # {}

\* split has returned after cutting a sequence into two fragments of length
\* goal and a longer last fragment.
SplitCoversWitness ==
    /\ spc = "done" /\ goal < max /\ Len(src) >= 1
    /\ Cardinality(FragsOf(1)) = 3
    /\ Len(dst[1].Seq) = goal /\ Len(dst[2].Seq) = goal
    /\ Len(dst[3].Seq) > goal /\ Len(dst[3].Seq) = max
    /\ frags[dst[3].ID] = fragment(src[1].ID, 2 * goal, Len(src[1].Seq))

\* The ids of the fragments written to dst.
EmittedIDs == { dst[j].ID : j \in 1..Len(dst) }

\* C13: split fails with the duplicate sequence id error and returns no
\* table when the id generated for a fragment has already been assigned, and
\* as long as it has not failed every emitted fragment has an id of its own
\* and the table has exactly one entry for each emitted fragment.
SplitDuplicateIds ==
    /\ spc = "error" =>
          /\ frags = Nil
          /\ FragID(seqID, fi) \in EmittedIDs
    /\ spc # "error" =>
          /\ \A j, o \in 1..Len(dst) : dst[j].ID = dst[o].ID => j = o
          /\ DOMAIN frags = EmittedIDs
          /\ Cardinality(DOMAIN frags) = Len(dst)

\* split has failed on the second sequence of an input whose two sequences
\* have the same id and are each written as one fragment.
SplitDuplicateIdsWitness ==
    /\ spc = "error" /\ si = 2 /\ Len(dst) = 1
    /\ src[1].ID = src[2].ID
    /\ dst[1].ID = FragID(src[2].ID, 1)
    /\ frags = Nil

\* Inputs of three sequences, each of one letter or of the greatest length.
ThreeSeqs ==
    LET S == { x \in InputSeqs : Len(x.Seq) \in {1, MaxSeqLen} }
    IN  { << x, y, z >> : x \in S, y \in S, z \in S }

\* split before its first read of an input of three sequences.
SplitThreeInit ==
    /\ spc = "scan"
    /\ src \in ThreeSeqs
    /\ goal \in 1..MaxGoal
    /\ max \in 1..(MaxGoal + 1)
    /\ si = 0 /\ seqID = Nil /\ seqRest = <<>> /\ pos = 0
    /\ fi = 1
    /\ frags = <<>>
    /\ dst = <<>> /\ dstSrc = <<>>
    /\ CodecIdle /\ MergeIdle /\ CullIdle /\ ForwardIdle /\ MainIdle /\ ThreadIdle
    /\ RecipIdle

SpecSplitThree == SplitThreeInit /\ [][SplitNext]_vars

\* C29: split fails whenever two sequences of the input have the same id:
\* when it returns a table no two sequences of the input share an id, and
\* no table has fragments of two input sequences under one parent id.
SplitRejectsRepeatedIds ==
    /\ spc = "done" =>
          \A x, y \in 1..Len(src) : src[x].ID = src[y].ID => x = y
    /\ spc # "error" =>
          \A j, o \in 1..Len(dst) :
              frags[dst[j].ID].parent = frags[dst[o].ID].parent => dstSrc[j] = dstSrc[o]

(***************************************************************************)
(* cmd/ins/blast.go: runBlastTabular for one library, after split.  A      *)
(* BLAST report is a sequence of lines; a line is the record of its        *)
(* fields, the numbers as decimal digits.                                  *)
(***************************************************************************)
\* strconv.Atoi of decimal digits.
RECURSIVE Atoi(_)
Atoi(d) ==
    IF d = <<>> THEN 0
    ELSE 10 * Atoi(SubSeq(d, 1, Len(d) - 1)) + (d[Len(d)] - 48)

\* A line of the report: the query (a library repeat), the subject (a
\* sequence of the searched file) and the one-based inclusive ends of the
\* alignment on each, the subject ends exchanged on the minus strand.
Line(q, s, qa, qb, a, b, bits) ==
    [QueryAccVer |-> q, SubjectAccVer |-> s, QueryStart |-> Itoa(qa),
     QueryEnd |-> Itoa(qb), SubjectStart |-> Itoa(a), SubjectEnd |-> Itoa(b),
     BitScore |-> Itoa(bits)]

\* blast.ParseTabular on one line.
ParseTabularLine(l) ==
    Record(l.QueryAccVer, l.SubjectAccVer,
           Atoi(l.QueryStart) - 1, Atoi(l.QueryEnd),
           Atoi(l.SubjectStart) - 1, Atoi(l.SubjectEnd),
           Atoi(l.BitScore),
           IF Atoi(l.SubjectEnd) < Atoi(l.SubjectStart) - 1 THEN -1 ELSE 1,
           0)

\* Mutant: every hit is recorded as a hit of the first iteration.
ParseTabularFirstIteration(ls, iteration) ==
    [j \in 1..Len(ls) |-> [Iteration |-> 0] @@ ParseTabularLine(ls[j])]

\* blast.ParseTabular: each record with the iteration it was found in.
ParseTabular(ls, iteration) ==
    [j \in 1..Len(ls) |-> [Iteration |-> iteration] @@ ParseTabularLine(ls[j])]

\* The positions mask overwrites in the file of the sequences seqs for the
\* hits hs: for each hit on a sequence of the file the positions from the
\* lesser to before the greater of its subject ends.
MaskOf(seqs, hs) ==
    UNION { { << hs[j].SubjectAccVer, x >> :
                x \in Min(hs[j].SubjectStart, hs[j].SubjectEnd)
                      ..(Max(hs[j].SubjectStart, hs[j].SubjectEnd) - 1) } :
            j \in { o \in 1..Len(hs) :
                       \E q \in 1..Len(seqs) : seqs[q].ID = hs[o].SubjectAccVer } }

\* frags[id] of a Go map: the zero fragment when id is not a key.
Lookup(m, id) == IF Assigned(m, id) THEN m[id] ELSE fragment(<<>>, 0, 0)

\* Mutant: the end of a hit is not shifted.
remapCoordsStartOnly(hs, m) ==
    [j \in 1..Len(hs) |->
        [hs[j] EXCEPT !.SubjectAccVer = Lookup(m, hs[j].SubjectAccVer).parent,
                      !.SubjectStart = @ + Lookup(m, hs[j].SubjectAccVer).start]]

remapCoords(hs, m) ==
    [j \in 1..Len(hs) |->
        [hs[j] EXCEPT !.SubjectAccVer = Lookup(m, hs[j].SubjectAccVer).parent,
                      !.SubjectStart = @ + Lookup(m, hs[j].SubjectAccVer).start,
                      !.SubjectEnd = @ + Lookup(m, hs[j].SubjectAccVer).start]]

\* The loop of runBlastTabular over lastHits from the j-th hit on:
\* hits.Set(key, value) for each.
RECURSIVE SetAll(_, _, _)
SetAll(db, hs, j) ==
    IF j > Len(hs) THEN db
    ELSE SetAll(Set(db, "GroupByQueryOrderSubjectLeft", MarshalBlastRecordKey(hs[j]), hs[j]),
                hs, j + 1)

\* An input sequence with the id and the length given.
InputSeq(id, len) == [ID |-> id, Desc |-> <<100>>, Seq |-> [j \in 1..len |-> j - 1]]

\* The query files of the forward pass: "a" of length 5; "a" of length 5
\* and "b" of length 2; "a" twice.
ForwardSources ==
    { << InputSeq(<<97>>, 5) >>,
      << InputSeq(<<97>>, 5), InputSeq(<<98>>, 2) >>,
      << InputSeq(<<97>>, 2), InputSeq(<<97>>, 2) >> }

\* A subject name that is not an id of the fragments file: "z_1".
UnknownFragment == << 122, 95, 49 >>

\* The lines BLAST can report for the fragments file, numbered: for each
\* fragment an alignment of repeat "q" over the whole fragment on the plus
\* and on the minus strand, and last an alignment whose subject is reported
\* under another name.
NumBlastLines == 2 * Len(dst) + 1

BlastLineAt(x) ==
    IF x > 2 * Len(dst)
    THEN Line(<<113>>, UnknownFragment, 1, 2, 1, 2, 1)
    ELSE IF x % 2 = 1
    THEN Line(<<113>>, dst[(x + 1) \div 2].ID, 1, 2, 1, Len(dst[(x + 1) \div 2].Seq), 1)
    ELSE Line(<<113>>, dst[(x + 1) \div 2].ID, 1, 2, Len(dst[(x + 1) \div 2].Seq), 1, 1)

BlastLines == { BlastLineAt(x) : x \in 1..NumBlastLines }

\* The o-th least member of a set of numbers.
Nth(I, o) == CHOOSE x \in I : Cardinality({ y \in I : y < x }) = o - 1

\* The reports of at most k lines: no line twice, in the order of the
\* numbering.
ReportsUpTo(k) ==
    { [o \in 1..Cardinality(I) |-> BlastLineAt(Nth(I, o))] :
        I \in { J \in SUBSET (1..NumBlastLines) : Cardinality(J) <= k } }

\* main before split, with the fragment lengths 2 and 3.
ForwardInit ==
    /\ spc = "scan"
    /\ src \in ForwardSources
    /\ goal = 2 /\ max = 3
    /\ si = 0 /\ seqID = Nil /\ seqRest = <<>> /\ pos = 0
    /\ fi = 1
    /\ frags = <<>>
    /\ dst = <<>> /\ dstSrc = <<>>
    /\ CodecIdle /\ MergeIdle /\ CullIdle /\ ForwardIdle /\ MainIdle /\ ThreadIdle
    /\ RecipIdle

\* One search of the loop of runBlastTabular: makeblastdb, blastn and
\* ParseTabular; the loop ends when no hit is found.
ForwardBlast ==
    /\ spc = "done"
    /\ fpc \in {"idle", "stored"}
    /\ fn < MaxIters
    /\ \E ls \in ReportsUpTo(MaxLines) :
          /\ lines' = ls
          /\ lastHits' = ParseTabular(ls, fn)
          /\ fpc' = IF Len(ls) = 0 THEN "done" ELSE "parsed"
    /\ UNCHANGED << fn, working, codecVars, mergeVars, cullVars, splitVars, mainVars, threadVars, recipVars >>

\* mask(working, lastHits, 'N'): the working file is rewritten with the
\* subject intervals of the new hits masked.
ForwardMask ==
    /\ fpc = "parsed"
    /\ working' = working \cup MaskOf(dst, lastHits)
    /\ fpc' = "masked"
    /\ UNCHANGED << fn, lines, lastHits, codecVars, mergeVars, cullVars, splitVars,
                    mainVars, threadVars, recipVars >>

\* remapCoords(lastHits, mx).
ForwardRemap ==
    /\ fpc = "masked"
    /\ lastHits' = remapCoords(lastHits, frags)
    /\ fpc' = "remapped"
    /\ UNCHANGED << fn, lines, working, codecVars, mergeVars, cullVars, splitVars,
                    mainVars, threadVars, recipVars >>

\* The hits of the iteration are persisted and the next iteration begins.
ForwardPersist ==
    /\ fpc = "remapped"
    /\ hits' = SetAll(hits, lastHits, 1)
    /\ fn' = fn + 1
    /\ fpc' = "stored"
    /\ UNCHANGED << lines, lastHits, working, mpc, it, last, n, i, inTx, txDepth, regions,
                    mret, codecVars, cullVars, splitVars, mainVars, threadVars, recipVars >>

ForwardNext ==
    \/ SplitScan \/ SplitFragment
    \/ ForwardBlast \/ ForwardMask \/ ForwardRemap \/ ForwardPersist

SpecForward == ForwardInit /\ [][ForwardNext]_vars

(***************************************************************************)
(* Properties of the forward pass.                                         *)
(***************************************************************************)
\* The ids of the sequences of the query file.
ParentIDs == { src[s].ID : s \in 1..Len(src) }

\* C11: after split and remapCoords every hit whose subject named a fragment
\* has as subject the parent sequence of that fragment and its subject start
\* and end shifted by the start offset of the fragment, so that fragment
\* local positions [s, e) become parent positions [s + start, e + start);
\* these lie within [start, end] of the fragment, and the hit is persisted
\* with them.
RemapToParent ==
    fpc \in {"remapped", "stored"} =>
        \A j \in 1..Len(lines) :
            Assigned(frags, lines[j].SubjectAccVer) =>
                LET f     == frags[lines[j].SubjectAccVer]
                    local == ParseTabularLine(lines[j])
                    h     == lastHits[j]
                IN  /\ h.SubjectAccVer = f.parent
                    /\ f.parent \in ParentIDs
                    /\ h.SubjectStart = local.SubjectStart + f.start
                    /\ h.SubjectEnd = local.SubjectEnd + f.start
                    /\ f.start <= h.SubjectStart /\ h.SubjectStart <= f.end
                    /\ f.start <= h.SubjectEnd /\ h.SubjectEnd <= f.end
                    /\ fpc = "stored" => \E p \in 1..Len(hits) : hits[p].v = h

\* A hit reported on the minus strand of the whole of "a_2", the fragment
\* [2, 5) of "a", has been persisted as a hit on "a" with ends 4 and 3.
RemapToParentWitness ==
    /\ fpc = "stored" /\ Len(lines) >= 1
    /\ lines[1].SubjectAccVer = FragID(<<97>>, 2)
    /\ frags[lines[1].SubjectAccVer] = fragment(<<97>>, 2, 5)
    /\ Atoi(lines[1].SubjectStart) = 3 /\ Atoi(lines[1].SubjectEnd) = 1
    /\ lastHits[1].SubjectAccVer = <<97>>
    /\ lastHits[1].SubjectStart = 4 /\ lastHits[1].SubjectEnd = 3
    /\ \E p \in 1..Len(hits) : hits[p].v = lastHits[1]

\* C12: when remapCoords is given a hit whose subject is not a key of the
\* fragment table the run fails: the forward pass does not get past the
\* remapping, the hit is not rewritten, and no record of the forward store
\* comes from such a hit (every stored subject is a parent sequence).
UnknownFragmentFatal ==
    /\ \A j \in 1..Len(lines) :
          ~Assigned(frags, lines[j].SubjectAccVer) => fpc \notin {"remapped", "stored"}
    /\ \A p \in 1..Len(hits) : hits[p].v.SubjectAccVer \in ParentIDs

\* C20: a BLAST alignment reported one-based inclusive over the subject
\* positions a..b of a fragment, in either orientation, is stored zero-based
\* half-open: the key of its record has subject_left = min(a, b) - 1 and
\* subject_right = max(a, b), counted from the start of the fragment.
CoordinatesHalfOpen ==
    fpc = "stored" =>
        \A j \in 1..Len(lines) :
            Assigned(frags, lines[j].SubjectAccVer) =>
                LET f   == frags[lines[j].SubjectAccVer]
                    a   == Atoi(lines[j].SubjectStart)
                    b   == Atoi(lines[j].SubjectEnd)
                    key == MarshalBlastRecordKey(lastHits[j])
                    rec == UnmarshalBlastRecordKey(key)
                IN  /\ \E p \in 1..Len(hits) : hits[p].k = key
                    /\ rec.SubjectLeft = f.start + Min(a, b) - 1
                    /\ rec.SubjectRight = f.start + Max(a, b)

\* The positions of the fragments file that the lines of the report cover,
\* as hits local to the fragments: one-based inclusive a..b becomes
\* [a - 1, b), with the ends put in order.
LocalMask ==
    UNION { { << lines[j].SubjectAccVer, x >> :
                x \in Min(Atoi(lines[j].SubjectStart) - 1, Atoi(lines[j].SubjectEnd))
                      ..(Max(Atoi(lines[j].SubjectStart) - 1, Atoi(lines[j].SubjectEnd)) - 1) } :
            j \in { o \in 1..Len(lines) : Assigned(frags, lines[o].SubjectAccVer) } }

\* C22: the forward pass of a library makes at most the allowed number of
\* searches and ends at the first search without a hit; the hits of search
\* n carry the iteration number n; they are masked in the working file at
\* their fragment-local positions while still unmapped, and are in the
\* forward store, remapped, before the next search begins; the fragments
\* file is never changed.
ForwardLoop ==
    /\ [](fn <= MaxIters)
    /\ [](fpc = "done" => lastHits = <<>>)
    /\ [][fpc = "done" => fpc' = "done"]_vars
    /\ [][(spc = "done" /\ fpc \in {"idle", "stored"}) =>
            /\ fn < MaxIters /\ fn' = fn
            /\ (fpc' = "done") <=> (lines' = <<>>)
            /\ lines' # <<>> => fpc' = "parsed"]_vars
    /\ [](fpc \in {"parsed", "masked"} =>
            \A j \in 1..Len(lines) :
                /\ lastHits[j].Iteration = fn
                /\ lastHits[j].SubjectAccVer = lines[j].SubjectAccVer
                /\ lastHits[j].SubjectStart = Atoi(lines[j].SubjectStart) - 1
                /\ lastHits[j].SubjectEnd = Atoi(lines[j].SubjectEnd))
    /\ [][fpc = "parsed" =>
            /\ fpc' = "masked" /\ lastHits' = lastHits
            /\ working' = working \cup LocalMask]_vars
    /\ [](fpc \in {"masked", "remapped", "stored"} => LocalMask \subseteq working)
    /\ [][fpc = "masked" => (fpc' = "remapped" /\ working' = working /\ hits' = hits)]_vars
    /\ [](fpc = "stored" =>
            \A j \in 1..Len(lastHits) :
                /\ lastHits[j].Iteration = fn - 1
                /\ \E p \in 1..Len(hits) : hits[p].v = lastHits[j])
    /\ [][lines' # lines => fpc \in {"idle", "stored"}]_vars
    /\ [][spc = "done" => dst' = dst]_vars

\* The first search found a hit over the whole of the fragment "a_1", which
\* was masked there and stored as a hit of iteration 0 on "a"; the second
\* search found nothing and the loop ended.
ForwardLoopWitness ==
    /\ fpc = "done" /\ fn = 1 /\ lastHits = <<>>
    /\ Len(hits) = 1
    /\ hits[1].v.Iteration = 0 /\ hits[1].v.SubjectAccVer = <<97>>
    /\ working = { << FragID(<<97>>, 1), 0 >>, << FragID(<<97>>, 1), 1 >> }

(***************************************************************************)
(* cmd/ins: main from the recovery switches on.  A path is the sequence of *)
(* its elements; files holds the contents of the kv files on disk, hits,   *)
(* regions and rev the contents of the stores main has open.  A store      *)
(* handle is Nil (a nil *kv.DB) or records the file, the comparator and    *)
(* whether the store was created or opened.  err is what main died of.     *)
(***************************************************************************)
\* Mutant: the first element of the path instead of the last.
BaseOfDir(path) == IF path = <<>> THEN "." ELSE path[1]

\* filepath.Base.
Base(path) == IF path = <<>> THEN "." ELSE path[Len(path)]

\* filepath.Join(dir, name).
Join(dir, name) == Append(dir, name)

\* The directory ioutil.TempDir made for this run.
tmpDir == << "ins-tmp" >>

\* kv.Create and kv.Open.
DB(path, opts, how) == [path |-> path, opts |-> opts, how |-> how, open |-> TRUE]

\* The contents c written to the file at path.
WriteFile(fs, path, c) == [x \in (DOMAIN fs) \cup {path} |-> IF x = path THEN c ELSE fs[x]]

\* os.RemoveAll(dir): no file at or below dir is left.
RemoveAll(fs, dir) ==
    [x \in { y \in DOMAIN fs : ~(Len(y) >= Len(dir) /\ SubSeq(y, 1, Len(dir)) = dir) }
        |-> fs[x]]

\* The function main defers unless -work is given, run when main returns
\* or a panic unwinds it: the working directory is removed.
Deferred(fs) == IF work THEN fs ELSE RemoveAll(fs, tmpDir)

\* The case of the first switch of main: open forward.db, nothing, or the
\* forward pass.
SwitchForward(b) ==
    IF b = "forward.db" THEN "open"
    ELSE IF b \in {"regions.db", "reverse.db"} THEN "skip"
    ELSE "run"

\* The case of the second switch: open regions.db, nothing, or merge.
SwitchMerge(b) ==
    IF b = "regions.db" THEN "open"
    ELSE IF b = "reverse.db" THEN "skip"
    ELSE "run"

\* The case of the third switch: open reverse.db or the reciprocal pass.
SwitchReciprocal(b) == IF b = "reverse.db" THEN "open" ELSE "run"

\* The arguments of -recover: none, and a file of each name in a directory.
RecoverPaths ==
    { <<>>, << "work", "forward.db" >>, << "work", "regions.db" >>,
      << "work", "reverse.db" >>, << "work", "other.db" >> }

\* The store holding the records hs under the comparator opts.
RECURSIVE StoreOf(_, _)
StoreOf(opts, hs) ==
    IF hs = <<>> THEN <<>>
    ELSE Set(StoreOf(opts, SubSeq(hs, 1, Len(hs) - 1)), opts,
             MarshalBlastRecordKey(hs[Len(hs)]), hs[Len(hs)])

\* The hits the forward pass of main finds: repeat "q" on the plus strand of
\* "a" at 0-50, 40-45, 41-45 and 76-80.
MainForwardRecords ==
    { h \in ForwardRecords :
        /\ h.QueryAccVer = <<113>> /\ h.SubjectAccVer = <<97>> /\ h.Strand = 1
        /\ h.SubjectEnd \in {45, 50, 80} }

\* The hits the reciprocal pass of main finds: repeat "q" on the plus strand
\* of "a" at 0-100 and 70-100 with bit score 1 or 3.
MainReverseRecords ==
    { r \in ReverseRecords :
        /\ r.QueryAccVer = <<113>> /\ r.SubjectAccVer = <<97>> /\ r.Strand = 1
        /\ r.SumScore = 1 /\ r.SubjectEnd = 100 }

\* The store files an earlier run can have left at the recovery path: each
\* store empty or as the run wrote it.
RecoveredFiles(path) ==
    IF Base(path) = "forward.db"
    THEN { WriteFile(<<>>, path, <<>>),
           WriteFile(<<>>, path,
                     StoreOf("GroupByQueryOrderSubjectLeft",
                             << Record(<<113>>, <<97>>, 0, 2, 0, 50, 1, 1, 0),
                                Record(<<113>>, <<97>>, 0, 2, 76, 80, 1, 1, 0) >>)) }
    ELSE IF Base(path) = "regions.db"
    THEN { WriteFile(<<>>, path, <<>>),
           WriteFile(<<>>, path,
                     Set(<<>>, "GroupByQueryOrderSubjectLeft",
                         RegionKey(BlastRecordKey(<<97>>, 0, 50, <<113>>, 0, 0, 0, 1)),
                         MarshalInt(2))) }
    ELSE IF Base(path) = "reverse.db"
    THEN { WriteFile(<<>>, path, <<>>),
           WriteFile(<<>>, path,
                     StoreOf("BySubjectPosition",
                             << Record(<<113>>, <<97>>, 0, 2, 0, 100, 3, 1, 1),
                                Record(<<113>>, <<97>>, 0, 2, 70, 100, 1, 1, 1) >>)) }
    ELSE { <<>> }

\* The variables of merge and of cullContained other than the stores.
mergeRun == << mpc, it, last, n, i, inTx, txDepth, mret >>
cullRun  == << rev0, kpc, outerIt, candIt, outer, deleted >>

\* main before its first switch: the flags are parsed and the query is split.
MainInit ==
    /\ pc = "forward" /\ err = ""
    /\ recover \in RecoverPaths
    /\ cull \in BOOLEAN /\ work \in BOOLEAN
    /\ files \in RecoveredFiles(recover)
    /\ hitsDB = NilDB /\ regionsDB = NilDB /\ remappedHits = NilDB
    /\ ran = {} /\ masked = NotMasked
    /\ CodecIdle /\ MergeIdle /\ CullIdle /\ SplitIdle /\ ForwardIdle /\ ThreadIdle
    /\ RecipIdle

\* The first switch: forward.db is opened, or nothing is done, or the
\* forward pass is started on a new forward.db.
MainForward ==
    /\ pc = "forward" /\ err = ""
    /\ LET c == SwitchForward(Base(recover))
       IN  IF c = "open"
           THEN /\ hitsDB' = DB(recover, "GroupByQueryOrderSubjectLeft", "open")
                /\ hits' = files[recover]
                /\ pc' = "merge"
                /\ UNCHANGED << files, ran >>
           ELSE IF c = "skip"
           THEN /\ pc' = "merge"
                /\ UNCHANGED << hitsDB, hits, files, ran >>
           ELSE /\ hitsDB' = DB(Join(tmpDir, "forward.db"),
                                "GroupByQueryOrderSubjectLeft", "create")
                /\ hits' = <<>>
                /\ files' = WriteFile(files, Join(tmpDir, "forward.db"), <<>>)
                /\ ran' = ran \cup {"forward"}
                /\ pc' = "blast"
    /\ UNCHANGED << err, recover, cull, work, regionsDB, remappedHits, masked,
                    mergeRun, regions, codecVars, cullVars, splitVars, forwardVars, threadVars, recipVars >>

\* runBlastTabular persisting one hit.
MainBlast ==
    /\ pc = "blast" /\ err = ""
    /\ Len(hits) < MaxHits
    /\ \E h \in MainForwardRecords :
          hits' = Set(hits, "GroupByQueryOrderSubjectLeft", MarshalBlastRecordKey(h), h)
    /\ UNCHANGED << mainVars, threadVars, recipVars, mergeRun, regions, codecVars, cullVars, splitVars,
                    forwardVars >>

\* runBlastTabular returns the forward store.
MainBlastReturn ==
    /\ pc = "blast" /\ err = ""
    /\ pc' = "merge"
    /\ UNCHANGED << err, recover, cull, work, hitsDB, regionsDB, remappedHits, files,
                    ran, masked, codecVars, mergeVars, cullVars, splitVars,
                    forwardVars, threadVars, recipVars >>

\* The second switch: regions.db is opened, or nothing is done, or merge is
\* called, which creates regions.db in the working directory.
MainMerge ==
    /\ pc = "merge" /\ err = ""
    /\ LET c == SwitchMerge(Base(recover))
       IN  IF c = "open"
           THEN /\ regionsDB' = DB(recover, "GroupByQueryOrderSubjectLeft", "open")
                /\ regions' = files[recover]
                /\ pc' = "reciprocal"
                /\ UNCHANGED << files, ran >>
           ELSE IF c = "skip"
           THEN /\ pc' = "reciprocal"
                /\ UNCHANGED << regionsDB, regions, files, ran >>
           ELSE /\ files' = WriteFile(files, Join(tmpDir, "regions.db"), <<>>)
                /\ ran' = ran \cup {"merge"}
                /\ pc' = "merging"
                /\ UNCHANGED << regionsDB, regions >>
    /\ UNCHANGED << err, recover, cull, work, hitsDB, remappedHits, masked,
                    mergeRun, hits, codecVars, cullVars, splitVars, forwardVars, threadVars, recipVars >>

\* merge, called by main, up to its loop.
MainMergeStart == pc = "merging" /\ err = "" /\ MergeStart

\* merge has returned: main returns on io.EOF and its deferred function
\* runs, it dies of another error, and otherwise keeps the regions store it
\* was given and closes the forward store.  A panic of merge unwinds main,
\* whose deferred function runs.
MainMergeReturn ==
    /\ pc = "merging" /\ err = ""
    /\ mpc \in {"empty", "done", "panic"}
    /\ IF mpc = "panic"
       THEN /\ err' = "panic"
            /\ files' = Deferred(files)
            /\ UNCHANGED << pc, regionsDB, hitsDB >>
       ELSE IF mret.err = "EOF"
       THEN /\ pc' = "exit"
            /\ files' = Deferred(files)
            /\ UNCHANGED << err, regionsDB, hitsDB >>
       ELSE IF mret.err # "nil"
       THEN /\ err' = mret.err
            /\ UNCHANGED << pc, regionsDB, hitsDB, files >>
       ELSE /\ regionsDB' = IF mret.regions = "nil" THEN NilDB
                            ELSE DB(Join(tmpDir, "regions.db"),
                                    "GroupByQueryOrderSubjectLeft", "create")
            /\ hitsDB' = [hitsDB EXCEPT !.open = FALSE]
            /\ files' = WriteFile(files, hitsDB.path, hits)
            /\ pc' = "reciprocal"
            /\ UNCHANGED err
    /\ UNCHANGED << recover, cull, work, remappedHits, ran, masked,
                    codecVars, mergeVars, cullVars, splitVars, forwardVars, threadVars, recipVars >>

\* The third switch: reverse.db is opened, or a new reverse.db is created
\* and the first region is read with regions.SeekFirst, which on a nil
\* regions store is a nil pointer dereference; the deferred function runs
\* while the panic unwinds.
MainReciprocal ==
    /\ pc = "reciprocal" /\ err = ""
    /\ IF SwitchReciprocal(Base(recover)) = "open"
       THEN /\ remappedHits' = DB(recover, "BySubjectPosition", "open")
            /\ rev' = files[recover]
            /\ pc' = "cull"
            /\ UNCHANGED << files, ran, err >>
       ELSE /\ remappedHits' = DB(Join(tmpDir, "reverse.db"), "BySubjectPosition", "create")
            /\ rev' = <<>>
            /\ files' = IF regionsDB = NilDB
                         THEN Deferred(WriteFile(files, Join(tmpDir, "reverse.db"), <<>>))
                         ELSE WriteFile(files, Join(tmpDir, "reverse.db"), <<>>)
            /\ ran' = ran \cup {"reciprocal"}
            /\ pc' = "regions"
            /\ err' = IF regionsDB = NilDB THEN "nil pointer dereference" ELSE ""
    /\ UNCHANGED << recover, cull, work, hitsDB, regionsDB, masked,
                    cullRun, codecVars, mergeVars, splitVars, forwardVars, threadVars, recipVars >>

\* The reciprocal pass persisting one hit of the reciprocal BLAST of a group
\* of regions.
MainReciprocalHit ==
    /\ pc = "regions" /\ err = ""
    /\ Len(regions) > 0
    /\ Len(rev) < MaxRev
    /\ \E h \in MainReverseRecords :
          rev' = Set(rev, "BySubjectPosition", MarshalBlastRecordKey(h), h)
    /\ UNCHANGED << mainVars, threadVars, recipVars, cullRun, codecVars, mergeVars, splitVars, forwardVars >>

\* The loop over the regions has ended: regions.Close().
MainReciprocalDone ==
    /\ pc = "regions" /\ err = ""
    /\ regionsDB' = [regionsDB EXCEPT !.open = FALSE]
    /\ files' = WriteFile(files, regionsDB.path, regions)
    /\ pc' = "cull"
    /\ UNCHANGED << err, recover, cull, work, hitsDB, remappedHits, ran, masked,
                    codecVars, mergeVars, cullVars, splitVars, forwardVars, threadVars, recipVars >>

\* The positions mask replaces in the copy of the query: those of every
\* record of the store, [start, end) with the ends put in order.
MaskedPositions(db) ==
    UNION { { << db[j].v.SubjectAccVer, x >> :
                x \in Min(db[j].v.SubjectStart, db[j].v.SubjectEnd)
                      ..(Max(db[j].v.SubjectStart, db[j].v.SubjectEnd) - 1) } :
            j \in 1..Len(db) }

\* if *cull: with -work the reverse store is closed, reverse.db of the
\* working directory is copied to reverse-unculled.db and reopened; then
\* cullContained is called.
MainCull ==
    /\ pc = "cull" /\ err = ""
    /\ IF ~cull
       THEN /\ pc' = "output"
            /\ UNCHANGED << err, remappedHits, files, rev >>
       ELSE IF ~work
       THEN /\ pc' = "culling"
            /\ UNCHANGED << err, remappedHits, files, rev >>
       ELSE LET path   == Join(tmpDir, "reverse.db")
                closed == WriteFile(files, remappedHits.path, rev)
            IN  IF path \notin DOMAIN closed
                THEN \* os.Open(path) fails
                     /\ err' = "open reverse.db: no such file or directory"
                     /\ remappedHits' = [remappedHits EXCEPT !.open = FALSE]
                     /\ files' = closed
                     /\ UNCHANGED << pc, rev >>
                ELSE /\ files' = WriteFile(closed, Join(tmpDir, "reverse-unculled.db"),
                                           closed[path])
                     /\ remappedHits' = DB(path, "BySubjectPosition", "open")
                     /\ rev' = closed[path]
                     /\ pc' = "culling"
                     /\ UNCHANGED err
    /\ UNCHANGED << recover, cull, work, hitsDB, regionsDB, ran, masked,
                    cullRun, codecVars, mergeVars, splitVars, forwardVars, threadVars, recipVars >>

\* cullContained, called by main, up to its outer loop.
MainCullStart == pc = "culling" /\ err = "" /\ CullStart

\* cullContained has returned: main dies of its error; a panic of
\* cullContained unwinds main, whose deferred function runs.
MainCullReturn ==
    /\ pc = "culling" /\ err = ""
    /\ kpc \in {"done", "error", "panic"}
    /\ IF kpc = "done"
       THEN pc' = "output" /\ UNCHANGED << err, files >>
       ELSE /\ err' = IF kpc = "error" THEN "EOF" ELSE "panic"
            /\ files' = IF kpc = "panic" THEN Deferred(files) ELSE files
            /\ UNCHANGED pc
    /\ UNCHANGED << recover, cull, work, hitsDB, regionsDB, remappedHits, ran,
                    masked, codecVars, mergeVars, cullVars, splitVars, forwardVars, threadVars, recipVars >>

\* The records of the reverse store are written out and masked in a copy of
\* the query, and the reverse store is closed.  SeekFirst on an empty store
\* gives io.EOF and no enumerator: main lets io.EOF pass and calls Next on
\* the enumerator it did not get.  When main returns, and while the panic
\* unwinds, the deferred function runs.
MainOutput ==
    /\ pc = "output" /\ err = ""
    /\ IF rev = <<>>
       THEN /\ err' = "nil pointer dereference"
            /\ files' = Deferred(files)
            /\ UNCHANGED << pc, masked, remappedHits >>
       ELSE /\ masked' = [written |-> TRUE, positions |-> MaskedPositions(rev)]
            /\ remappedHits' = [remappedHits EXCEPT !.open = FALSE]
            /\ files' = Deferred(WriteFile(files, remappedHits.path, rev))
            /\ pc' = "exit"
            /\ UNCHANGED err
    /\ UNCHANGED << recover, cull, work, hitsDB, regionsDB, ran,
                    codecVars, mergeVars, cullVars, splitVars, forwardVars, threadVars, recipVars >>

MainNext ==
    \/ MainForward \/ MainBlast \/ MainBlastReturn
    \/ MainMerge \/ MainMergeStart \/ MergeNext \/ MergeFinal \/ MainMergeReturn
    \/ MainReciprocal \/ MainReciprocalHit \/ MainReciprocalDone
    \/ MainCull \/ MainCullStart \/ CullOuter \/ CullInner \/ MainCullReturn
    \/ MainOutput

SpecMain == MainInit /\ [][MainNext]_vars

(***************************************************************************)
(* Properties of main.                                                     *)
(***************************************************************************)
\* The last element of the recovery path.
Basename == IF recover = <<>> THEN "." ELSE recover[Len(recover)]

\* How far main has come: 1 and 2 after the first switch, 3 and 4 after the
\* second, 5 and more after the third.
Rank(p) ==
    IF p = "forward" THEN 0
    ELSE IF p = "blast" THEN 1
    ELSE IF p = "merge" THEN 2
    ELSE IF p = "merging" THEN 3
    ELSE IF p = "reciprocal" THEN 4
    ELSE IF p = "regions" THEN 5
    ELSE IF p = "cull" THEN 6
    ELSE IF p = "culling" THEN 7
    ELSE IF p = "output" THEN 8
    ELSE 9

\* C14: the basename of the recovery path selects the passes that run: the
\* forward pass runs iff it is none of forward.db, regions.db, reverse.db,
\* merge runs iff it is neither regions.db nor reverse.db, the reciprocal
\* pass runs iff it is not reverse.db; with forward.db, regions.db or
\* reverse.db the store at the recovery path is opened, not created, with
\* the group-by-query comparator for forward.db and regions.db and the
\* by-subject-position comparator for reverse.db.
RecoverySelectsPasses ==
    /\ "forward" \in ran => Rank(pc) >= 1
    /\ "merge" \in ran => Rank(pc) >= 3
    /\ "reciprocal" \in ran => Rank(pc) >= 5
    /\ Rank(pc) >= 1 =>
          /\ "forward" \in ran <=> Basename \notin {"forward.db", "regions.db", "reverse.db"}
          /\ Basename = "forward.db" =>
                /\ hitsDB.path = recover /\ hitsDB.how = "open"
                /\ hitsDB.opts = "GroupByQueryOrderSubjectLeft"
          /\ "forward" \in ran => hitsDB.how = "create"
    /\ Rank(pc) >= 3 =>
          /\ "merge" \in ran <=> Basename \notin {"regions.db", "reverse.db"}
          /\ Basename = "regions.db" =>
                /\ regionsDB.path = recover /\ regionsDB.how = "open"
                /\ regionsDB.opts = "GroupByQueryOrderSubjectLeft"
    /\ Rank(pc) >= 5 =>
          /\ "reciprocal" \in ran <=> Basename # "reverse.db"
          /\ Basename = "reverse.db" =>
                /\ remappedHits.path = recover /\ remappedHits.how = "open"
                /\ remappedHits.opts = "BySubjectPosition"

\* main has ended after a recovery from regions.db: only the reciprocal
\* pass ran, on the regions of the opened store, and found hits.
RecoverySelectsPassesWitness ==
    /\ pc = "exit" /\ Basename = "regions.db"
    /\ ran = {"reciprocal"}
    /\ hitsDB = NilDB
    /\ regionsDB.path = recover /\ regionsDB.how = "open" /\ Len(regions) = 1
    /\ remappedHits.how = "create" /\ Len(rev) >= 1

\* The file that holds the reciprocal hits when culling begins.
ReversePath == IF Basename = "reverse.db" THEN recover ELSE Join(tmpDir, "reverse.db")

\* C15: with culling and keep-work the reverse store is closed and copied
\* to reverse-unculled.db before any record is deleted, for every resume
\* point: the copy step does not fail, the store then culled is the store
\* that held the reciprocal hits, the copy holds the contents before the
\* cull, and the culled store is what is left at its path afterwards.
KeepWorkCopy ==
    (cull /\ work) =>
        /\ pc = "cull" => err = ""
        /\ Rank(pc) >= 7 =>
              /\ remappedHits.path = ReversePath
              /\ Join(tmpDir, "reverse-unculled.db") \in DOMAIN files
              /\ files[Join(tmpDir, "reverse-unculled.db")]
                    = (IF kpc = "idle" THEN rev ELSE rev0)
              /\ pc = "exit" => files[ReversePath] = rev

\* C17: when the forward pass finds no hit the forward store is empty, no
\* region is read and no reciprocal hit is found, the run does not crash,
\* and the masked output is written with no position masked.
EmptyLibraryRun ==
    ("forward" \in ran /\ Rank(pc) >= 2 /\ Len(hits) = 0) =>
        /\ err = ""
        /\ Len(regions) = 0 /\ rev = <<>>
        /\ pc = "exit" => (masked.written /\ masked.positions = {})

(***************************************************************************)
(* cmd/ins: the thread count of the BLAST searches.  search is the Threads *)
(* field of main's search parameters; a blastn invocation is recorded with *)
(* the pass it belongs to and the Threads of the parameters its command is *)
(* built from, 0 for a command without -num_threads.                       *)
(***************************************************************************)
Modes == {"sensitive", "normal", "rough", "user"}

\* blastnModes[m].Threads: runtime.NumCPU() but for the empty "user" mode.
blastnModes(m, ncpu) == IF m = "user" THEN 0 ELSE ncpu

\* realign.Threads
realign(ncpu) == ncpu

\* main after flag.Parse, on a machine of numCPU cores.
ThreadsInit ==
    /\ tpc = "flags"
    /\ mode \in Modes
    /\ threads \in (-1)..(MaxCPU + 1)
    /\ numCPU \in 1..MaxCPU
    /\ search = 0 /\ blastns = {}
    /\ CodecIdle /\ MergeIdle /\ CullIdle /\ SplitIdle /\ ForwardIdle /\ MainIdle
    /\ RecipIdle

\* search, ok := blastnModes[*mode]; if *threads > 0 the thread count is
\* capped.
ThreadsFlags ==
    /\ tpc = "flags"
    /\ search' = IF threads > 0
                 THEN Min(threads, blastnModes(mode, numCPU))
                 ELSE blastnModes(mode, numCPU)
    /\ tpc' = "forward"
    /\ UNCHANGED << mode, threads, numCPU, blastns, codecVars, mergeVars, cullVars,
                    splitVars, forwardVars, mainVars, recipVars >>

\* A blastn of runBlastTabular, built from search; the forward pass goes on
\* or ends.
ThreadsForward ==
    /\ tpc = "forward"
    /\ blastns' = blastns \cup { [pass |-> "forward", num_threads |-> search] }
    /\ tpc' \in {"forward", "reciprocal"}
    /\ UNCHANGED << mode, threads, numCPU, search, codecVars, mergeVars, cullVars,
                    splitVars, forwardVars, mainVars, recipVars >>

\* A blastn of runBlastXML for one flush: its parameters are realign, or
\* blastnModes["user"] in user mode; the reciprocal pass goes on or ends.
ThreadsReciprocal ==
    /\ tpc = "reciprocal"
    /\ blastns' = blastns \cup
          { [pass |-> "reciprocal",
             num_threads |-> IF mode = "user" THEN blastnModes(mode, numCPU)
                             ELSE realign(numCPU)] }
    /\ tpc' \in {"reciprocal", "done"}
    /\ UNCHANGED << mode, threads, numCPU, search, codecVars, mergeVars, cullVars,
                    splitVars, forwardVars, mainVars, recipVars >>

ThreadsNext == ThreadsFlags \/ ThreadsForward \/ ThreadsReciprocal

SpecThreads == ThreadsInit /\ [][ThreadsNext]_vars

\* C21: in the search modes other than "user", when a positive thread
\* ceiling is given every blastn of the forward and of the reciprocal pass
\* is run with num_threads = min(ceiling, cores), so none with more threads
\* than the ceiling.
ThreadCeiling ==
    (mode # "user" /\ threads > 0) =>
        \A b \in blastns :
            /\ b.num_threads = Min(threads, numCPU)
            /\ b.num_threads <= threads

(***************************************************************************)
(* The reciprocal pass of main, with runBlastXML and reportBlast of        *)
(* cmd/ins/blast.go.  The regions store is regions and the reverse store   *)
(* is rev.  A sequence of the accumulator is its FASTA header; BLAST names *)
(* a sequence of the database by its whole header line.  A nil *string is  *)
(* NilString.                                                              *)
(***************************************************************************)
NilString == << -1 >>

\* var g store.BlastRecordKey
ZeroKey == BlastRecordKey(<<>>, 0, 0, <<>>, 0, 0, 0, 0)

\* fmt's %+d of a strand: "+1" or "-1".
Signed(x) == IF x < 0 THEN << 45 >> \o Itoa(0 - x) ELSE << 43 >> \o Itoa(x)

\* The sequence main writes to the accumulator for the region r: its id is
\* fmt.Sprintf("%s_%d_%d", ...) and its description is
\* fmt.Sprintf("%d %d %s %+d", ...).
RegionSeq(r) ==
    [ID   |-> r.SubjectAccVer \o << 95 >> \o Itoa(r.SubjectLeft)
              \o << 95 >> \o Itoa(r.SubjectRight),
     Desc |-> Itoa(r.SubjectLeft) \o << 32 >> \o Itoa(r.SubjectRight)
              \o << 32 >> \o r.QueryAccVer \o << 32 >> \o Signed(r.Strand),
     Len  |-> r.SubjectRight - r.SubjectLeft]

\* The Hit_def BLAST reports for a sequence of the database.
HitDef(sq) == sq.ID \o << 32 >> \o sq.Desc

\* strings.Index(s, c) for a single byte c.
Index(s, c) ==
    IF \E j \in 1..Len(s) : s[j] = c
    THEN (CHOOSE j \in 1..Len(s) : s[j] = c /\ \A m \in 1..(j - 1) : s[m] # c) - 1
    ELSE -1

\* strings.Fields
RECURSIVE Fields(_)
Fields(s) ==
    IF s = <<>> THEN <<>>
    ELSE IF s[1] = 32 THEN Fields(Tail(s))
    ELSE IF Index(s, 32) < 0 THEN << s >>
    ELSE << SubSeq(s, 1, Index(s, 32)) >> \o Fields(SubSeq(s, Index(s, 32) + 1, Len(s)))

\* Mutant: a region is flushed only when the next region is of another
\* query or the store is exhausted.
FlushOnQueryChange(f, r, nx) == f \/ r.QueryAccVer # nx.QueryAccVer

\* final || g.QueryAccVer != next.QueryAccVer || g.Strand != next.Strand
Flush(f, r, nx) == f \/ r.QueryAccVer # nx.QueryAccVer \/ r.Strand # nx.Strand

\* Mutant: the strand of an HSP is the orientation of the hit alone.
hspStrandOfHit(hsp) == IF hsp.HitTo < hsp.HitFrom THEN -1 ELSE 1

\* qStrand * hStrand of runBlastXML.
hspStrand(hsp) ==
    (IF hsp.QueryTo < hsp.QueryFrom THEN -1 ELSE 1)
    * (IF hsp.HitTo < hsp.HitFrom THEN -1 ELSE 1)

\* The hits of a kept iteration, each with its HSPs of the strand of r.
FilterHits(hs, r) ==
    [j \in 1..Len(hs) |->
        [hs[j] EXCEPT !.Hsps = SelectSeq(@, LAMBDA h : hspStrand(h) = r.Strand)]]

\* runBlastXML after decoding the output o of blastn: the iterations without
\* hits, without a query id or of another query are removed.
runBlastXML(r, o) ==
    [Iterations |->
        LET kept == SelectSeq(o.Iterations,
                        LAMBDA x : ~(Len(x.Hits) = 0 \/ x.QueryId = NilString
                                     \/ x.QueryId # r.QueryAccVer))
        IN  [j \in 1..Len(kept) |-> [kept[j] EXCEPT !.Hits = FilterHits(@, r)]]]

\* Mutant: the counter is returned without being advanced.
nextIDSame(id) == id

\* hitID++; return hitID
nextID(id) == id + 1

\* left, from the fields of the description of the hit.
LeftOf(hit) == Atoi(Fields(SubSeq(hit.Def, Index(hit.Def, 32) + 2, Len(hit.Def)))[1])

\* The records of one hit: each HSP zero-based at its start and moved by
\* left onto the subject, with the query, subject and strand of r.
ReportHit(hit, r, uid) ==
    [j \in 1..Len(hit.Hsps) |->
        [UID |-> uid] @@
        Record(r.QueryAccVer, r.SubjectAccVer,
               hit.Hsps[j].QueryFrom - 1, hit.Hsps[j].QueryTo,
               hit.Hsps[j].HitFrom - 1 + LeftOf(hit), hit.Hsps[j].HitTo + LeftOf(hit),
               hit.Hsps[j].BitScore, r.Strand, 0)]

\* The loop over the hits of an iteration from hit j: the records and the
\* counter after it; a query id other than that of r ends the loop.
RECURSIVE ReportHits(_, _, _, _, _)
ReportHits(qid, hs, j, r, id) ==
    IF j > Len(hs) \/ qid # r.QueryAccVer
    THEN [remapped |-> <<>>, hitID |-> id]
    ELSE [remapped |-> ReportHit(hs[j], r, nextID(id))
                       \o ReportHits(qid, hs, j + 1, r, nextID(id)).remapped,
          hitID |-> ReportHits(qid, hs, j + 1, r, nextID(id)).hitID]

\* The loop over the iterations from iteration j; an iteration without a
\* query id ends the loop.
RECURSIVE ReportIterations(_, _, _, _)
ReportIterations(its, j, r, id) ==
    IF j > Len(its) \/ its[j].QueryId = NilString
    THEN [remapped |-> <<>>, hitID |-> id]
    ELSE [remapped |-> ReportHits(its[j].QueryId, its[j].Hits, 1, r, id).remapped
                       \o ReportIterations(its, j + 1, r,
                              ReportHits(its[j].QueryId, its[j].Hits, 1, r, id).hitID).remapped,
          hitID |-> ReportIterations(its, j + 1, r,
                        ReportHits(its[j].QueryId, its[j].Hits, 1, r, id).hitID).hitID]

\* reportBlast(results, g, verbose) with the counter hitID at id: the
\* records and the counter after it.
reportBlast(results, r, id) == ReportIterations(results.Iterations, 1, r, id)

\* remappedHits.Set(key, value) for each record from the j-th.
RECURSIVE SetEach(_, _, _)
SetEach(db, hs, j) ==
    IF j > Len(hs) THEN db
    ELSE SetEach(Set(db, "BySubjectPosition", MarshalBlastRecordKey(hs[j]), hs[j]),
                 hs, j + 1)

\* The regions the merge can have left: repeat "q" or "q2", on either
\* strand, at 2-6 of "a" or at 10-13 of "b1".
RegionAt(sa) == IF sa = << 97 >> THEN << 2, 6 >> ELSE << 10, 13 >>

ReciprocalRegions ==
    { BlastRecordKey(sa, RegionAt(sa)[1], RegionAt(sa)[2], q, 0, 0, 0, st) :
        sa \in SubjectAccs, q \in QueryAccs, st \in Strands }

\* The regions store of the regions S, as merge writes it.
RECURSIVE RegionsStoreOf(_)
RegionsStoreOf(S) ==
    IF S = {} THEN <<>>
    ELSE LET x == CHOOSE y \in S : TRUE
         IN  Set(RegionsStoreOf(S \ {x}), "GroupByQueryOrderSubjectLeft",
                 RegionKey(x), MarshalInt(1))

\* An HSP of BLAST's XML report, with one-based inclusive ends.
Hsp(qf, qt, hf, ht) ==
    [QueryFrom |-> qf, QueryTo |-> qt, HitFrom |-> hf, HitTo |-> ht, BitScore |-> 1]

\* An HSP over a database sequence of length len: the query and then the
\* hit in ascending ("p") or descending ("m") order, from the first base of
\* the sequence or from its second.
Oriented(o, len, v) ==
    Hsp(IF o[1] = "p" THEN 1 ELSE 3, IF o[1] = "p" THEN 3 ELSE 1,
        IF o[2] = "p" THEN 1 + v ELSE len, IF o[2] = "p" THEN len ELSE 1 + v)

Orientations == << << "p", "p" >>, << "p", "m" >>, << "m", "p" >>, << "m", "m" >> >>

\* The HSPs of a hit in the reports of whole runs: one or two HSPs of the
\* strand st, or an HSP of the other strand and then one of st.
HspsOfStrand(st, len) ==
    LET m == IF st = 1 THEN << "p", "p" >> ELSE << "p", "m" >>
        x == IF st = 1 THEN << "p", "m" >> ELSE << "p", "p" >>
    IN  { << Oriented(m, len, 0) >>,
          << Oriented(m, len, 0), Oriented(m, len, 1) >>,
          << Oriented(x, len, 0), Oriented(m, len, 1) >> }

\* The reports of blastn for the accumulator b and the region r with at
\* most k hits: no iteration, or the iteration of the query of r with hits
\* on sequences of b.
ReportsOfQuery(b, r, k) ==
    LET H == UNION { { [Def |-> HitDef(b[j]), Hsps |-> h] :
                         h \in HspsOfStrand(r.Strand, b[j].Len) } : j \in 1..Len(b) }
    IN  { [Iterations |-> <<>>] }
        \cup { [Iterations |-> << [QueryId |-> r.QueryAccVer, Hits |-> hs] >>] :
                 hs \in UNION { [1..m -> H] : m \in 1..k } }

\* The HSPs of a hit in the reports of one flush: k HSPs whose orientations
\* follow each other in the order of Orientations from the one numbered c.
HspsInTurn(len, k, c) ==
    [j \in 1..k |-> Oriented(Orientations[((c + j - 2) % 4) + 1], len, (j - 1) % 2)]

\* The reports of blastn for the accumulator b and the region r with at
\* most k iterations: each iteration is of the query of r, of another query
\* or without a query id, and has no hit or one hit of at most k HSPs.
ReportsOfLibrary(b, r, k) ==
    LET H == UNION { { [Def |-> HitDef(b[j]), Hsps |-> HspsInTurn(b[j].Len, m, c)] :
                         m \in 1..k, c \in 1..4 } : j \in 1..Len(b) }
        I == { [QueryId |-> q, Hits |-> hs] :
                 q \in QueryAccs \cup { NilString },
                 hs \in { <<>> } \cup { << h >> : h \in H } }
    IN  { [Iterations |-> its] : its \in UNION { [1..m -> I] : m \in 0..k } }

\* main before the loop over the regions, the regions store being one of
\* stores.
ReciprocalStart(stores) ==
    /\ rpc = "first" /\ regions \in stores
    /\ rit = Nil /\ rg = ZeroKey /\ rnext = ZeroKey /\ rfinal = FALSE
    /\ buf = <<>> /\ xml = <<>> /\ hitID = 0 /\ reported = <<>>
    /\ nread = 0 /\ appended = <<>> /\ rtx = 0 /\ rlog = <<>>
    /\ hits = <<>> /\ mpc = "idle" /\ it = 0 /\ last = Nil /\ n = 0 /\ i = 0
    /\ inTx = FALSE /\ txDepth = 0 /\ mret = Nil
    /\ CodecIdle /\ CullIdle /\ SplitIdle /\ ForwardIdle /\ MainIdle /\ ThreadIdle

\* A regions store of at most MaxRegions regions.
ReciprocalInit ==
    ReciprocalStart({ RegionsStoreOf(S) :
        S \in { T \in SUBSET ReciprocalRegions : Cardinality(T) <= MaxRegions } })

\* A regions store of one region of "a".
OneRegionInit ==
    ReciprocalStart({ RegionsStoreOf({x}) :
        x \in { y \in ReciprocalRegions : y.SubjectAccVer = << 97 >> } })

\* it, err := regions.SeekFirst() and the first it.Next(): the first region
\* is g, or the store is at its end.
ReciprocalFirst ==
    /\ rpc = "first"
    /\ IF EnumNext(regions, "GroupByQueryOrderSubjectLeft", SeekFirst(regions)).eof
       THEN /\ rfinal' = TRUE
            /\ rpc' = "done"
            /\ UNCHANGED << rit, rg, nread >>
       ELSE /\ rg' = UnmarshalBlastRecordKey(
                        EnumNext(regions, "GroupByQueryOrderSubjectLeft", SeekFirst(regions)).k)
            /\ rit' = EnumNext(regions, "GroupByQueryOrderSubjectLeft", SeekFirst(regions)).it
            /\ nread' = nread + 1
            /\ rpc' = "read"
            /\ UNCHANGED rfinal
    /\ UNCHANGED << rnext, buf, xml, hitID, reported, appended, rtx, rlog,
                    codecVars, mergeVars, cullVars, splitVars, forwardVars, mainVars,
                    threadVars >>

\* The head of the loop: next is read with it.Next(), or final is set at
\* the end of the store.
ReciprocalRead ==
    /\ rpc = "read"
    /\ IF EnumNext(regions, "GroupByQueryOrderSubjectLeft", rit).eof
       THEN /\ rfinal' = TRUE
            /\ rnext' = ZeroKey
            /\ UNCHANGED << rit, nread >>
       ELSE /\ rnext' = UnmarshalBlastRecordKey(
                            EnumNext(regions, "GroupByQueryOrderSubjectLeft", rit).k)
            /\ rit' = EnumNext(regions, "GroupByQueryOrderSubjectLeft", rit).it
            /\ nread' = nread + 1
            /\ UNCHANGED rfinal
    /\ rpc' = "append"
    /\ UNCHANGED << rg, buf, xml, hitID, reported, appended, rtx, rlog,
                    codecVars, mergeVars, cullVars, splitVars, forwardVars, mainVars,
                    threadVars >>

\* The sequence of g is written to the accumulator; without a flush g
\* becomes next and the loop goes on.
ReciprocalAppend ==
    /\ rpc = "append"
    /\ buf' = Append(buf, RegionSeq(rg))
    /\ appended' = Append(appended, rg)
    /\ IF Flush(rfinal, rg, rnext)
       THEN rpc' = "flush" /\ UNCHANGED rg
       ELSE rpc' = "read" /\ rg' = rnext
    /\ UNCHANGED << rit, rnext, rfinal, xml, hitID, reported, nread, rtx, rlog,
                    codecVars, mergeVars, cullVars, splitVars, forwardVars, mainVars,
                    threadVars >>

\* The flush for the report o of blastn, res being the result of
\* reportBlast: the records are set in one transaction, the accumulator is
\* reset and g becomes next.
FlushWith(o, res) ==
    /\ xml' = << runBlastXML(rg, o) >>
    /\ reported' = res.remapped
    /\ hitID' = res.hitID
    /\ rev' = SetEach(rev, res.remapped, 1)
    /\ rtx' = rtx + 1
    /\ buf' = <<>>
    /\ rlog' = Append(rlog, [g |-> rg, upto |-> Len(appended), out |-> o,
                             reported |-> res.remapped, nread |-> nread])
    /\ rg' = rnext
    /\ rpc' = IF rfinal THEN "done" ELSE "read"
    /\ UNCHANGED << rit, rnext, rfinal, nread, appended,
                    codecVars, mergeVars, cullRun, splitVars, forwardVars, mainVars,
                    threadVars >>

\* The flush of a run whose reports have at most MaxXMLHits hits in all.
ReciprocalFlush ==
    /\ rpc = "flush"
    /\ \E o \in ReportsOfQuery(buf, rg, MaxXMLHits - hitID) :
          FlushWith(o, reportBlast(runBlastXML(rg, o), rg, hitID))

\* The flush for a report of at most MaxXMLHits iterations.
ReciprocalFlushLibrary ==
    /\ rpc = "flush"
    /\ \E o \in ReportsOfLibrary(buf, rg, MaxXMLHits) :
          FlushWith(o, reportBlast(runBlastXML(rg, o), rg, hitID))

ReciprocalNext ==
    ReciprocalFirst \/ ReciprocalRead \/ ReciprocalAppend \/ ReciprocalFlush

SpecReciprocal == ReciprocalInit /\ [][ReciprocalNext]_vars

OneRegionNext ==
    ReciprocalFirst \/ ReciprocalRead \/ ReciprocalAppend \/ ReciprocalFlushLibrary

SpecOneRegion == OneRegionInit /\ [][OneRegionNext]_vars

(***************************************************************************)
(* Properties of the reciprocal pass.                                      *)
(***************************************************************************)
\* The regions of the f-th flushed batch.
Batch(f) ==
    { appended[j] : j \in (IF f = 1 THEN 1 ELSE rlog[f - 1].upto + 1)..rlog[f].upto }

RECURSIVE Concat(_)
Concat(ss) == IF ss = <<>> THEN <<>> ELSE Head(ss) \o Concat(Tail(ss))

\* For each HSP of the results res, in the order of the report, the name
\* BLAST gave to the database sequence it lies on.
Sources(res) ==
    Concat([a \in 1..Len(res.Iterations) |->
        Concat([b \in 1..Len(res.Iterations[a].Hits) |->
            [c \in 1..Len(res.Iterations[a].Hits[b].Hsps) |->
                res.Iterations[a].Hits[b].Def]])])

\* The record rec is on the subject of the region x and within it.
InRegion(rec, x) ==
    /\ rec.SubjectAccVer = x.SubjectAccVer
    /\ x.SubjectLeft <= Min(rec.SubjectStart, rec.SubjectEnd)
    /\ Max(rec.SubjectStart, rec.SubjectEnd) <= x.SubjectRight

\* C28: every record a flush writes to the reverse store has the subject
\* accession of the region whose sequence the HSP was found on, and its
\* subject interval lies within that region, whatever the subjects of the
\* regions of the batch.
ReverseSubjectOfRegion ==
    \A f \in 1..Len(rlog) :
        \A j \in 1..Len(rlog[f].reported) :
            \E x \in Batch(f) :
                /\ HitDef(RegionSeq(x)) = Sources(runBlastXML(rlog[f].g, rlog[f].out))[j]
                /\ InRegion(rlog[f].reported[j], x)

\* For each HSP of the results res, in the order of the report, the
\* iteration and the hit it belongs to.
HitsOf(res) ==
    Concat([a \in 1..Len(res.Iterations) |->
        Concat([b \in 1..Len(res.Iterations[a].Hits) |->
            [c \in 1..Len(res.Iterations[a].Hits[b].Hsps) |-> << a, b >>]])])

\* The records of the run so far in the order they were made, each with
\* the flush, iteration and hit it comes from and its UID.
Processed ==
    Concat([f \in 1..Len(rlog) |->
        [j \in 1..Len(rlog[f].reported) |->
            [hit |-> << f >> \o HitsOf(runBlastXML(rlog[f].g, rlog[f].out))[j],
             uid |-> rlog[f].reported[j].UID]]])

\* In the records P the UID tells the hits apart and grows from hit to hit.
UIDsFollowHits(P) ==
    \A x \in 1..Len(P) : \A y \in x..Len(P) :
        /\ (P[x].hit = P[y].hit) <=> (P[x].uid = P[y].uid)
        /\ (P[x].hit # P[y].hit) => (P[x].uid < P[y].uid)

\* C25: over the run, across the flushes, the records of one BLAST hit have
\* the same UID, records of different hits have different UIDs, and the
\* UIDs grow strictly in the order in which the hits are processed.
UIDsPerHit == UIDsFollowHits(Processed)

\* The run has ended after two flushes, the first with a hit of two
\* records and the second with a hit.
UIDsPerHitWitness ==
    /\ rpc = "done" /\ Len(rlog) = 2
    /\ Len(rlog[1].reported) = 2
    /\ rlog[1].reported[1].UID = rlog[1].reported[2].UID
    /\ Len(rlog[2].reported) = 1
    /\ rlog[2].reported[1].UID > rlog[1].reported[1].UID

\* The number of regions in the batches flushed so far.
Flushed == IF rlog = <<>> THEN 0 ELSE rlog[Len(rlog)].upto

\* The k-th region of the store R is the last of the store or is followed
\* by a region of another query or strand.
Boundary(R, k) ==
    \/ k = Len(R)
    \/ R[k].QueryAccVer # R[k + 1].QueryAccVer
    \/ R[k].Strand # R[k + 1].Strand

\* The regions are appended in the order of the store R, each once; the
\* batches follow each other without gap or overlap and end exactly at the
\* boundaries of R; the accumulator holds the regions appended since the
\* last flush; each flush is one transaction and its records are in the
\* reverse store.
BatchesOf(R) ==
    /\ Len(appended) <= Len(R)
    /\ \A k \in 1..Len(appended) : appended[k] = R[k]
    /\ rpc = "done" => Len(appended) = Len(R) /\ Flushed = Len(R)
    /\ \A f \in 1..Len(rlog) :
          /\ (IF f = 1 THEN 0 ELSE rlog[f - 1].upto) < rlog[f].upto
          /\ rlog[f].upto <= Len(appended)
          /\ \A x \in Batch(f) :
                x.QueryAccVer = rlog[f].g.QueryAccVer /\ x.Strand = rlog[f].g.Strand
    /\ \A k \in 1..Len(appended) :
          Boundary(R, k) <=>
              \/ \E f \in 1..Len(rlog) : rlog[f].upto = k
              \/ rpc = "flush" /\ k = Len(appended)
    /\ buf = [j \in 1..(Len(appended) - Flushed) |-> RegionSeq(appended[Flushed + j])]
    /\ rpc \in {"read", "done"} /\ rlog # <<>> /\ nread = rlog[Len(rlog)].nread
          => buf = <<>>
    /\ rtx = Len(rlog)
    /\ \A f \in 1..Len(rlog) : \A j \in 1..Len(rlog[f].reported) :
          \E x \in 1..Len(rev) : rev[x].k = MarshalBlastRecordKey(rlog[f].reported[j])

\* C23: every region of the regions store is appended to the accumulator
\* once and is in one flushed batch; a flush happens exactly when the next
\* region is of another query or strand or the store is at its end; the
\* accumulator is empty after a flush; the records of a flush are persisted
\* in one transaction, which is committed before a further region is
\* appended or read, the region that follows the batch having been read
\* before the flush.
ReciprocalBatches ==
    /\ BatchesOf(Regions)
    /\ \A f \in 1..Len(rlog) :
          rlog[f].nread = Min(rlog[f].upto + 1, Len(regions))

\* The run has ended on a store of three regions after two flushes, the
\* first of a batch of two regions, with records in the reverse store.
ReciprocalBatchesWitness ==
    /\ rpc = "done" /\ Len(regions) = 3
    /\ Len(rlog) = 2 /\ rlog[1].upto = 2 /\ rlog[1].nread = 3
    /\ rlog[1].reported # <<>> /\ rlog[2].reported # <<>>
    /\ buf = <<>>

\* C23 as stated: the same, with the transaction of a flush committed
\* before the region that follows the batch is read.
CommitBeforeNextRead ==
    /\ BatchesOf(Regions)
    /\ \A f \in 1..Len(rlog) : rlog[f].nread = rlog[f].upto

Sign(x) == IF x > 0 THEN 1 ELSE IF x < 0 THEN -1 ELSE 0

\* The query, strand and coordinates of a record.
CoordsOf(v) ==
    << v.QueryAccVer, v.Strand, v.QueryStart, v.QueryEnd, v.SubjectStart, v.SubjectEnd >>

\* The left end of the region of the batch B that BLAST names def.
LeftOfRegion(B, def) == (CHOOSE x \in B : HitDef(RegionSeq(x)) = def).SubjectLeft

\* The HSPs of the iteration t of the report of flush f that are of the
\* strand of the batch, translated: the start made zero-based and the hit
\* coordinates moved onto the subject.
SatisfyingOf(f, t) ==
    UNION { { << rlog[f].g.QueryAccVer, rlog[f].g.Strand,
                 t.Hits[b].Hsps[c].QueryFrom - 1, t.Hits[b].Hsps[c].QueryTo,
                 t.Hits[b].Hsps[c].HitFrom - 1 + LeftOfRegion(Batch(f), t.Hits[b].Def),
                 t.Hits[b].Hsps[c].HitTo + LeftOfRegion(Batch(f), t.Hits[b].Def) >> :
              c \in { d \in 1..Len(t.Hits[b].Hsps) :
                        Sign(t.Hits[b].Hsps[d].QueryTo - t.Hits[b].Hsps[d].QueryFrom)
                        * Sign(t.Hits[b].Hsps[d].HitTo - t.Hits[b].Hsps[d].HitFrom)
                        = rlog[f].g.Strand } } :
            b \in 1..Len(t.Hits) }

\* The HSPs of the report of flush f that are of the strand of the batch
\* and in an iteration whose query id is the query of the batch.
Satisfying(f) ==
    UNION { SatisfyingOf(f, rlog[f].out.Iterations[a]) :
            a \in { d \in 1..Len(rlog[f].out.Iterations) :
                      rlog[f].out.Iterations[d].QueryId = rlog[f].g.QueryAccVer } }

\* C24: every record in the reverse store is an HSP whose
\* sign(queryTo - queryFrom) * sign(hitTo - hitFrom) is the strand of the
\* flushed batch, from an iteration whose query id is the query of the
\* batch; the HSPs of the other strand and the iterations of another query
\* or without a query id leave no record, and the flush goes on to the
\* iterations after them; every HSP with both properties is reported and
\* has its record in the store.
StrandAndQueryFilter ==
    /\ \A x \in 1..Len(rev) :
          \E f \in 1..Len(rlog) : CoordsOf(rev[x].v) \in Satisfying(f)
    /\ \A f \in 1..Len(rlog) :
          /\ { CoordsOf(rlog[f].reported[j]) : j \in 1..Len(rlog[f].reported) }
                = Satisfying(f)
          /\ \A t \in Satisfying(f) : \E x \in 1..Len(rev) : CoordsOf(rev[x].v) = t

\* A flush has ended whose report has an iteration without a query id,
\* with a hit, before the iteration of the query of the batch, whose hit
\* has an HSP of the strand of the batch and an HSP of the other strand:
\* one record is in the reverse store.
StrandAndQueryFilterWitness ==
    /\ rpc = "done" /\ Len(rlog) = 1 /\ Len(rev) = 1
    /\ Len(rlog[1].out.Iterations) = 2
    /\ rlog[1].out.Iterations[1].QueryId = NilString
    /\ Len(rlog[1].out.Iterations[1].Hits) = 1
    /\ rlog[1].out.Iterations[2].QueryId = rlog[1].g.QueryAccVer
    /\ Len(rlog[1].out.Iterations[2].Hits) = 1
    /\ Len(rlog[1].out.Iterations[2].Hits[1].Hsps) = 2

====
